---- MODULE Spec2Model ----
(***************************************************************************)
(* PolarStar: the CNC command dispatcher (polarstar/cnc.py).               *)
(*                                                                         *)
(* Text (Python str) is a sequence of one-character strings; data on the   *)
(* serial line (Python bytes) is a sequence of byte values 0..255.         *)
(* str.encode / bytes.decode convert between the two.                      *)
(***************************************************************************)
EXTENDS Integers, Sequences, FiniteSets, TLC

(* ------------------------------------------------------------------ *)
(* Bounds of the model                                                 *)
(* ------------------------------------------------------------------ *)

\* longest script, in lines, a send_gcode call is given
MaxLines == 2

\* most status responses without "<Idle" the device gives to one wait_for_idle
MaxPoll == 2

\* most responses without "ok" the device gives after one transmitted command
MaxAck == 2

(* ------------------------------------------------------------------ *)
(* Python str / bytes primitives                                       *)
(* ------------------------------------------------------------------ *)

\* the ASCII characters from 32 (space) to 95 (underscore) in code point order
AsciiLow ==
    << " ", "!", "\"", "#", "$", "%", "&", "'", "(", ")", "*", "+",
       ",", "-", ".", "/", "0", "1", "2", "3", "4", "5", "6", "7",
       "8", "9", ":", ";", "<", "=", ">", "?", "@", "A", "B", "C",
       "D", "E", "F", "G", "H", "I", "J", "K", "L", "M", "N", "O",
       "P", "Q", "R", "S", "T", "U", "V", "W", "X", "Y", "Z", "[",
       "\\", "]", "^", "_" >>

\* the ASCII characters from 97 (a) to 126 (tilde) in code point order
AsciiHigh ==
    << "a", "b", "c", "d", "e", "f", "g", "h", "i", "j", "k", "l",
       "m", "n", "o", "p", "q", "r", "s", "t", "u", "v", "w", "x",
       "y", "z", "{", "|", "}", "~" >>

\* ord(c) of the characters of a run that starts at code point base
OrdOf(run, base) ==
    [c \in { run[i] : i \in 1..Len(run) } |->
        base - 1 + (CHOOSE i \in 1..Len(run) : run[i] = c)]

\* ord(c) for the characters the model uses (ASCII)
Ord ==
    OrdOf(AsciiLow, 32) @@ OrdOf(AsciiHigh, 97)
    @@ ("\t" :> 9) @@ ("\n" :> 10) @@ ("\r" :> 13)

Chars == DOMAIN Ord

Chr == [b \in {Ord[c] : c \in Chars} |-> CHOOSE c \in Chars : Ord[c] = b]

\* str.isspace for one character
Whitespace == {" ", "\t", "\n", "\r"}

\* str.lower for one character: an ASCII capital moves up by 32
LowerChar(c) == IF Ord[c] \in 65..90 THEN Chr[Ord[c] + 32] ELSE c

\* str.lower
Lower(s) == [i \in 1..Len(s) |-> LowerChar(s[i])]

\* str.encode (UTF-8, of ASCII text)
Encode(s) == [i \in 1..Len(s) |-> Ord[s[i]]]

\* bytes.decode succeeds on well-formed UTF-8 only; a lone byte >= 128 is not
Decodable(b) == \A i \in 1..Len(b) : b[i] < 128

\* bytes.decode (UTF-8), where it succeeds
Decode(b) == [i \in 1..Len(b) |-> Chr[b[i]]]

RECURSIVE LStrip(_)
LStrip(s) == IF s = <<>> \/ s[1] \notin Whitespace THEN s ELSE LStrip(Tail(s))

RECURSIVE RStrip(_)
RStrip(s) ==
    IF s = <<>> \/ s[Len(s)] \notin Whitespace THEN s
    ELSE RStrip(SubSeq(s, 1, Len(s) - 1))

\* str.strip()
Strip(s) == RStrip(LStrip(s))

\* index of the first character of s that is in set cs, Len(s)+1 when none
FirstIn(s, cs) ==
    IF \E i \in 1..Len(s) : s[i] \in cs
    THEN CHOOSE i \in 1..Len(s) : s[i] \in cs /\ \A j \in 1..(i - 1) : s[j] \notin cs
    ELSE Len(s) + 1

\* str.split(sep) for a one-character separator: empty pieces are kept
RECURSIVE SplitSep(_, _)
SplitSep(s, sep) ==
    LET i == FirstIn(s, {sep})
    IN  IF i > Len(s) THEN <<s>>
        ELSE <<SubSeq(s, 1, i - 1)>> \o SplitSep(SubSeq(s, i + 1, Len(s)), sep)

\* str.split(): pieces between runs of whitespace, no empty piece
RECURSIVE SplitWS(_)
SplitWS(s) ==
    LET t == LStrip(s)
        i == FirstIn(t, Whitespace)
    IN  IF t = <<>> THEN <<>>
        ELSE <<SubSeq(t, 1, i - 1)>> \o SplitWS(SubSeq(t, i, Len(t)))

\* the Python test  sub in s
Contains(s, sub) ==
    \E i \in 1..(Len(s) - Len(sub) + 1) : SubSeq(s, i, i + Len(sub) - 1) = sub

\* "\n".join(ls)
RECURSIVE Join(_)
Join(ls) ==
    IF Len(ls) = 0 THEN <<>>
    ELSE IF Len(ls) = 1 THEN ls[1]
    ELSE ls[1] \o <<"\n">> \o Join(Tail(ls))

(* ------------------------------------------------------------------ *)
(* Python numbers and their text                                       *)
(* ------------------------------------------------------------------ *)

\* Lengths and heights (x_spacing, y_spacing, z_read, z_safe, offset_y) are
\* held in hundredths of a millimetre: 900 is 9 mm, -9000 is -90 mm.  The
\* plate parameters of the model have at most two decimals and their products
\* and sums stay far below 2^53 / 100, so a float's ":.2f" text is the text of
\* the exact value.

Abs(n) == IF n < 0 THEN -n ELSE n

DigitChars == <<"0", "1", "2", "3", "4", "5", "6", "7", "8", "9">>

\* str(n) of a natural number
RECURSIVE NatStr(_)
NatStr(n) ==
    IF n < 10 THEN <<DigitChars[n + 1]>>
    ELSE NatStr(n \div 10) \o <<DigitChars[(n % 10) + 1]>>

\* f"{n}" of an int
IntStr(n) == IF n < 0 THEN <<"-">> \o NatStr(-n) ELSE NatStr(n)

\* f"{v:.2f}" of the value v hundredths
Format2f(h) ==
    (IF h < 0 THEN <<"-">> ELSE <<>>)
    \o NatStr(Abs(h) \div 100)
    \o <<".", DigitChars[((Abs(h) % 100) \div 10) + 1], DigitChars[(Abs(h) % 10) + 1]>>

IsDigit(c) == \E d \in 1..10 : DigitChars[d] = c

DigitValue(c) == (CHOOSE d \in 1..10 : DigitChars[d] = c) - 1

RECURSIVE DigitsValue(_)
DigitsValue(s) ==
    IF s = <<>> THEN 0
    ELSE 10 * DigitsValue(SubSeq(s, 1, Len(s) - 1)) + DigitValue(s[Len(s)])

\* the digits of an int literal: surrounding whitespace and one sign taken off
IntDigits(s) ==
    LET t == Strip(s)
    IN  IF t # <<>> /\ t[1] \in {"+", "-"} THEN Tail(t) ELSE t

\* int(s) succeeds (a decimal literal without underscores)
IsInt(s) == IntDigits(s) # <<>> /\ \A i \in 1..Len(IntDigits(s)) : IsDigit(IntDigits(s)[i])

\* int(s), where it succeeds
IntOf(s) ==
    LET t == Strip(s)
    IN  IF t[1] = "-" THEN -DigitsValue(IntDigits(s)) ELSE DigitsValue(IntDigits(s))

\* a concentration: the exact quotient num / den, den > 0
Rat(n, d) == [num |-> n, den |-> d]

\* a > b for two such quotients
RatGreater(a, b) == a.num * b.den > b.num * a.den

RECURSIVE Pow(_, _)
Pow(b, e) == IF e = 0 THEN 1 ELSE b * Pow(b, e - 1)

(* ------------------------------------------------------------------ *)
(* Plate: construction and well assignment                             *)
(* ------------------------------------------------------------------ *)

\* the value of a well nothing was assigned to (numpy's empty object array)
None == <<>>

\* the (row, col) indices of a rows x cols array
Wells(rows, cols) == (0..(rows - 1)) \X (0..(cols - 1))

\* Plate(rows, cols, x_spacing, y_spacing, z_read, offset_y, z_safe=z_safe):
\* the parameters the modelled methods read, and data with every well None
Plate(rows, cols, x_spacing, y_spacing, z_read, offset_y, z_safe) ==
    [rows |-> rows, cols |-> cols, x_spacing |-> x_spacing,
     y_spacing |-> y_spacing, z_read |-> z_read, z_safe |-> z_safe,
     offset_y |-> offset_y, data |-> [w \in Wells(rows, cols) |-> None]]

\* the index counted with the number of rows as the stride
pos_to_index_by_rows(p, row, col) == row * p.rows + col

\* pos_to_index(row, col)
pos_to_index(p, row, col) == row * p.cols + col

\* the position taken column by column
index_to_pos_swapped(p, index) == <<index % p.cols, index \div p.cols>>

\* index_to_pos(index): divmod(index, self.cols), which floors
index_to_pos(p, index) == <<index \div p.cols, index % p.cols>>

\* convert_concentration(concentration): (concentration_display, unit)
convert_concentration(c) ==
    IF RatGreater(c, Rat(9, 1000)) THEN <<c, "mM">>
    ELSE IF RatGreater(c, Rat(9, 1000000)) THEN <<Rat(c.num * 1000, c.den), "uM">>
    ELSE IF RatGreater(c, Rat(9, 1000000000))
    THEN <<Rat(c.num * 1000000, c.den), "nM">>
    ELSE <<Rat(c.num * 1000000000, c.den), "pM">>

\* f"{chr(65+row)}{col+1}", the name stored in a well
well_label(row, col) == <<Chr[65 + row]>> \o IntStr(col + 1)

\* numpy's index along an axis of length n: a negative one counts from the end
AxisIndex(i, n) == IF i < 0 THEN i + n ELSE i

\* the index is within the bounds numpy accepts for an axis of length n
InAxis(i, n) == -n <= i /\ i < n

\* the outcome of a method of Plate: the plate afterwards and the exception
\* raised ("" when it returned)
Outcome(p, raised) == [plate |-> p, raised |-> raised]

\* self.data[row, col] = value
data_setitem(p, row, col, value) ==
    IF InAxis(row, p.rows) /\ InAxis(col, p.cols)
    THEN Outcome([p EXCEPT !.data[<<AxisIndex(row, p.rows), AxisIndex(col, p.cols)>>]
                               = value], "")
    ELSE Outcome(p, "IndexError")

\* set_custom(pos, value, substance, color)
set_custom(p, pos, value, substance, color) ==
    IF ~IsInt(Tail(pos)) THEN Outcome(p, "ValueError")
    ELSE LET row == Ord[pos[1]] - Ord["A"]
             col == IntOf(Tail(pos)) - 1
         IN  IF row < p.rows /\ col < p.cols
             THEN data_setitem(p, row, col,
                               <<well_label(row, col), substance, color, value, "">>)
             ELSE Outcome(p, "")

\* the body of set_serial_dilutions' loop, from step i on
RECURSIVE dilution_loop(_, _, _, _, _, _, _, _)
dilution_loop(p, start_idx, i, num_dilutions, initial_concentration, dilution_factor, substance, color) ==
    IF i >= num_dilutions THEN Outcome(p, "")
    ELSE LET concentration == Rat(initial_concentration, Pow(dilution_factor, i))
             pos == index_to_pos(p, start_idx + i)
             row == pos[1]
             col == pos[2]
             shown == convert_concentration(concentration)
             set == data_setitem(p, row, col,
                                 <<well_label(row, col), substance, color,
                                   shown[1], shown[2]>>)
         IN  IF row < p.rows /\ col < p.cols
             THEN IF set.raised # "" THEN set
                  ELSE dilution_loop(set.plate, start_idx, i + 1, num_dilutions,
                                     initial_concentration, dilution_factor,
                                     substance, color)
             ELSE dilution_loop(p, start_idx, i + 1, num_dilutions,
                                initial_concentration, dilution_factor,
                                substance, color)

\* set_serial_dilutions(start_pos, initial_concentration, dilution_factor,
\* num_dilutions, substance, color), for a positive integer dilution_factor
set_serial_dilutions(p, start_pos, initial_concentration, dilution_factor, num_dilutions, substance, color) ==
    IF ~IsInt(Tail(start_pos)) THEN Outcome(p, "ValueError")
    ELSE LET start_row == Ord[start_pos[1]] - Ord["A"]
             start_col == IntOf(Tail(start_pos)) - 1
             start_idx == pos_to_index(p, start_row, start_col)
         IN  dilution_loop(p, start_idx, 0, num_dilutions, initial_concentration,
                           dilution_factor, substance, color)

(* ------------------------------------------------------------------ *)
(* Plate.generate_gcode                                                *)
(* ------------------------------------------------------------------ *)

\* every well taken as occupied
is_occupied_always(p, row, col) == TRUE

\* if self.data[row, col] is not None
is_occupied(p, row, col) == p.data[<<row, col>>] # None

\* the X of a well taken from its row
well_x_by_row(p, row, col) == row * p.x_spacing

\* x = col * self.x_spacing
well_x(p, row, col) == col * p.x_spacing

\* y = (row * self.y_spacing) + self.offset_y
well_y(p, row, col) == (row * p.y_spacing) + p.offset_y

\* the row letters taken modulo 26 with a second letter from row 26 on
marker_label_wrapped(row, col) ==
    (IF row >= 26 THEN <<Chr[Ord["A"] + (row \div 26) - 1]>> ELSE <<>>)
    \o <<Chr[Ord["A"] + (row % 26)]>> \o IntStr(col + 1)

\* f"{chr(ord('A') + row)}{col+1}", the well named in the action marker
marker_label(row, col) == <<Chr[Ord["A"] + row]>> \o IntStr(col + 1)

\* the lines appended before the loop
gcode_setup(p) ==
    << <<"G", "2", "1", ";", " ", "S", "e", "t", " ", "u", "n", "i", "t", "s", " ", "t", "o", " ", "m", "i", "l", "l", "i", "m", "e", "t", "e", "r", "s">>,
       <<"G", "9", "0", ";", " ", "U", "s", "e", " ", "a", "b", "s", "o", "l", "u", "t", "e", " ", "p", "o", "s", "i", "t", "i", "o", "n", "i", "n", "g">>,
       <<"G", "0", " ", "Z">> \o Format2f(-p.z_safe) >>

\* the block with the action marker ahead of the two moves down
well_block_marker_first(p, row, col) ==
    << <<"R", "e", "a", "d", " ", "w", "e", "l", "l", " ", "a", "t", " ">> \o marker_label(row, col),
       <<"G", "0", " ", "X">> \o Format2f(well_x(p, row, col))
           \o <<" ", "Y">> \o Format2f(well_y(p, row, col))
           \o <<" ", "Z">> \o Format2f(-p.z_safe)
           \o <<";", " ", "M", "o", "v", "e", " ", "t", "o", " ", "a", "b", "o", "v", "e", " ", "w", "e", "l", "l", " ", "a", "t", " ", "(">> \o IntStr(row) \o <<",", " ">>
           \o IntStr(col) \o <<")">>,
       <<"G", "0", " ", "Z">> \o Format2f(-p.z_read) \o <<";", " ", "L", "o", "w", "e", "r", " ", "t", "o", " ", "r", "e", "a", "d", "i", "n", "g", " ", "h", "e", "i", "g", "h", "t">>,
       <<"G", "0", " ", "Z">> \o Format2f(-p.z_safe) \o <<";", " ", "R", "a", "i", "s", "e", " ", "b", "a", "c", "k", " ", "t", "o", " ", "s", "a", "f", "e", " ", "h", "e", "i", "g", "h", "t">> >>

\* the four lines appended for an occupied well
well_block(p, row, col) ==
    << <<"G", "0", " ", "X">> \o Format2f(well_x(p, row, col))
           \o <<" ", "Y">> \o Format2f(well_y(p, row, col))
           \o <<" ", "Z">> \o Format2f(-p.z_safe)
           \o <<";", " ", "M", "o", "v", "e", " ", "t", "o", " ", "a", "b", "o", "v", "e", " ", "w", "e", "l", "l", " ", "a", "t", " ", "(">> \o IntStr(row) \o <<",", " ">>
           \o IntStr(col) \o <<")">>,
       <<"G", "0", " ", "Z">> \o Format2f(-p.z_read) \o <<";", " ", "L", "o", "w", "e", "r", " ", "t", "o", " ", "r", "e", "a", "d", "i", "n", "g", " ", "h", "e", "i", "g", "h", "t">>,
       <<"R", "e", "a", "d", " ", "w", "e", "l", "l", " ", "a", "t", " ">> \o marker_label(row, col),
       <<"G", "0", " ", "Z">> \o Format2f(-p.z_safe) \o <<";", " ", "R", "a", "i", "s", "e", " ", "b", "a", "c", "k", " ", "t", "o", " ", "s", "a", "f", "e", " ", "h", "e", "i", "g", "h", "t">> >>

\* the lines appended after the loop
gcode_trailer ==
    << <<"G", "0", " ", "X", "0", " ", "Y", "0", ";", " ", "R", "e", "t", "u", "r", "n">>,
       <<"G", "0", " ", "Z", "0", ";", " ", "R", "e", "t", "u", "r", "n">>,
       <<"M", "3", "0", ";", " ", "E", "n", "d", " ", "o", "f", " ", "p", "r", "o", "g", "r", "a", "m">> >>

\* for col in range(self.cols), from col on, within one row
RECURSIVE gcode_cols(_, _, _)
gcode_cols(p, row, col) ==
    IF col >= p.cols THEN <<>>
    ELSE (IF is_occupied(p, row, col) THEN well_block(p, row, col) ELSE <<>>)
         \o gcode_cols(p, row, col + 1)

\* for row in range(self.rows), from row on
RECURSIVE gcode_rows(_, _)
gcode_rows(p, row) ==
    IF row >= p.rows THEN <<>>
    ELSE gcode_cols(p, row, 0) \o gcode_rows(p, row + 1)

\* the list gcode at the end of generate_gcode
gcode_lines(p) == gcode_setup(p) \o gcode_rows(p, 0) \o gcode_trailer

\* generate_gcode() without a filename: "\n".join(gcode)
generate_gcode(p) == Join(gcode_lines(p))

(* ------------------------------------------------------------------ *)
(* Inputs                                                              *)
(* ------------------------------------------------------------------ *)

\* script lines: empty, whitespace only, a motion command, an action marker
\* with leading and trailing whitespace
ScriptLines ==
    { <<>>,
      <<" ", "\t">>,
      <<"G", "0">>,
      <<" ", "R", "e", "a", "d", " ", "A", "1", " ">> }

\* script texts: up to MaxLines lines joined by newlines
ScriptTexts ==
    { Join(ls) : ls \in UNION { [1..n -> ScriptLines] : n \in 1..MaxLines } }

\* no Plate has been constructed
NoPlate == Plate(0, 0, 0, 0, 0, 0, 0)

\* the arguments the model gives to set_custom and set_serial_dilutions:
\* value 1.5; initial_concentration 1.0 and dilution_factor 10
CustomValue == Rat(3, 2)

InitialConcentration == 1

DilutionFactor == 10

\* the plate sent to the device: Plate(1, 1), no well assigned
DispatchPlate == Plate(1, 1, 900, 900, -500, -9000, 0)

\* the files that exist, with their bytes: one G-code file with CRLF line ends
Files == <<"j", "o", "b", ".", "n", "c">> :> Encode(<<"G", "0", "\r", "\n", "G", "0", "\r", "\n">>)

\* arguments of send_gcode: None, an object of another type, a G-code string,
\* the path of a file, a Plate
InputData ==
    { [kind |-> "None", text |-> <<>>, plate |-> NoPlate],
      [kind |-> "int", text |-> <<>>, plate |-> NoPlate],
      [kind |-> "Plate", text |-> <<>>, plate |-> DispatchPlate] }
    \cup { [kind |-> "str", text |-> t, plate |-> NoPlate] :
              t \in ScriptTexts \cup DOMAIN Files }

\* (*args, **kwargs) given to register_callback
BoundNone == [args |-> <<>>, kwargs |-> {}]

BoundExtra == [args |-> <<"extra_arg">>, kwargs |-> {<<"key", "value">>}]

\* register_callback calls: the same keyword in two letter cases with different
\* handlers and bound arguments, and a second keyword
Registrations ==
    { [command |-> <<"R", "e", "a", "d">>, callback |-> "h1", bound |-> BoundNone],
      [command |-> <<"r", "e", "a", "d">>, callback |-> "h2", bound |-> BoundExtra],
      [command |-> <<"G", "0">>, callback |-> "h1", bound |-> BoundExtra] }

\* what one readline() of the device can return
Responses ==
    { Encode(<<"O", "K", "\n">>),
      Encode(<<"[", "O", "k", "]", "\n">>),
      Encode(<<"<", "I", "d", "l", "e", ">", "\n">>),
      Encode(<<"<", "i", "d", "l", "e", ">", "\n">>),
      <<>>,
      <<255, 10>> }

\* the status query byte, b"?"
StatusQuery == Encode(<<"?">>)

\* a call on the controller other than register_callback
NoOp(name) == [op |-> name, command |-> <<>>, callback |-> "", bound |-> BoundNone]

NoExc == [type |-> "", site |-> ""]

NoEntry == [callback |-> "", args |-> <<>>, kwargs |-> {}]

\* no send_gcode call has resolved an input
NoSource ==
    [input |-> [kind |-> "None", text |-> <<>>, plate |-> NoPlate],
     via |-> "none", compiles |-> 0]

\* no method has been called on plate p
NoPlateOp(p) ==
    [op |-> "__init__", pos |-> <<>>, num |-> 0, before |-> p.data, raised |-> ""]

\* neither pos_to_index nor index_to_pos has been called
NoLookup == [op |-> "none", row |-> 0, col |-> 0, index |-> 0]

\* print(f"{tag}{text}")
Msg(tag, text) == [tag |-> tag, text |-> text]

NoStats == [opens |-> 0, flushes |-> 0, closes |-> 0, sent |-> 0, acked |-> 0]

(* ------------------------------------------------------------------ *)
(* State                                                               *)
(* ------------------------------------------------------------------ *)

VARIABLES
    callbacks,   \* self.callbacks: lower-cased keyword -> (callback, args, kwargs)
    lastOp,      \* the most recent call made on the controller, with its arguments
    pc,          \* where the running send_gcode call is ("idle": no call yet)
    gcode_str,   \* send_gcode's gcode_str
    lines,       \* gcode_str.split("\n"), the list the for loop walks
    idx,         \* 1-based position of the for loop in lines
    command,     \* send_gcode's command (<<>> stands for None)
    cb,          \* callback, args, kwargs unpacked from self.callbacks[command]
    response,    \* the local variable response of send_gcode / wait_for_idle
    exc,         \* the exception in flight inside send_gcode
    fault,       \* the exception as it was first raised inside this call
    port,        \* cnc_serial: "none" (unbound), "open" or "closed"
    wlog,        \* every bytes value written to the transport by this call,
                 \* with the position of the loop when it was written
    calls,       \* every handler invocation made by this call, likewise
    ltrace,      \* what has happened for the line the loop last worked on
    kinds,       \* how the loop treated each line it has taken so far
    stats,       \* transport operations counted for this call
    result,      \* how the last send_gcode call ended
    source,      \* the input_data of this send_gcode call and how it was resolved
    shown,       \* what the step just taken printed, message by message
    plate,       \* the Plate object: its parameters and self.data
    plateOp,     \* the last method called on the plate, its arguments, the
                 \* data it found and the exception it raised ("" for none)
    gcode,       \* what the last generate_gcode call returned
    nassign,     \* well-assignment calls made on the plate so far
    lookup       \* the last pos_to_index or index_to_pos call and its result

vars ==
    << callbacks, lastOp, pc, gcode_str, lines, idx, command, cb, response,
       exc, fault, port, wlog, calls, ltrace, kinds, stats, result, source,
       shown, plate, plateOp, gcode, nassign, lookup >>

\* the variables of the CNCController and its send_gcode call
controllerVars ==
    << callbacks, lastOp, pc, gcode_str, lines, idx, command, cb, response,
       exc, fault, port, wlog, calls, ltrace, kinds, stats, result, source,
       shown >>

\* the variables of the Plate object
plateVars == << plate, plateOp, gcode, nassign, lookup >>

\* the variables of one send_gcode call other than pc
callVars ==
    << gcode_str, lines, idx, command, cb, response, exc, fault, port, wlog,
       calls, ltrace, kinds, stats, result, source >>

Count(seq, x) == Cardinality({ i \in 1..Len(seq) : seq[i] = x })

\* CNCController.__init__, and no send_gcode call made yet
ControllerInit ==
    /\ callbacks = <<>>
    /\ lastOp = NoOp("__init__")
    /\ pc = "idle"
    /\ gcode_str = <<>>
    /\ lines = <<>>
    /\ idx = 1
    /\ command = <<>>
    /\ cb = NoEntry
    /\ response = <<>>
    /\ exc = NoExc
    /\ fault = NoExc
    /\ port = "none"
    /\ wlog = <<>>
    /\ calls = <<>>
    /\ ltrace = <<>>
    /\ kinds = <<>>
    /\ stats = NoStats
    /\ result = [status |-> "none", exc |-> NoExc]
    /\ source = NoSource
    /\ shown = <<>>

Init ==
    /\ ControllerInit
    /\ plate = NoPlate
    /\ plateOp = NoPlateOp(NoPlate)
    /\ gcode = <<>>
    /\ nassign = 0
    /\ lookup = NoLookup

(* ------------------------------------------------------------------ *)
(* CNCController.register_callback                                     *)
(* ------------------------------------------------------------------ *)

\* the keyword stored as given
registry_key_raw(cmd) == cmd

\* the dictionary key a keyword is stored under
registry_key(cmd) == Lower(cmd)

\* d[k] = v on a Python dict
DictSet(d, k, v) == [x \in DOMAIN d \cup {k} |-> IF x = k THEN v ELSE d[x]]

\* register_callback(command, callback, *args, **kwargs), called between
\* send_gcode calls
register_callback(cmd, callback, bound) ==
    /\ UNCHANGED plateVars
    /\ shown' = <<>>
    /\ pc \in {"idle", "returned"}
    /\ callbacks' = DictSet(callbacks, registry_key(cmd),
                            [callback |-> callback, args |-> bound.args,
                             kwargs |-> bound.kwargs])
    /\ lastOp' = [op |-> "register_callback", command |-> cmd,
                  callback |-> callback, bound |-> bound]
    /\ pc' = "idle"
    /\ gcode_str' = <<>> /\ lines' = <<>> /\ idx' = 1 /\ command' = <<>>
    /\ cb' = NoEntry /\ response' = <<>> /\ exc' = NoExc /\ fault' = NoExc
    /\ port' = "none"
    /\ wlog' = <<>> /\ calls' = <<>> /\ ltrace' = <<>> /\ kinds' = <<>>
    /\ stats' = NoStats
    /\ result' = [status |-> "none", exc |-> NoExc]
    /\ source' = NoSource

(* ------------------------------------------------------------------ *)
(* CNCController.send_gcode: entry, open, flush                        *)
(* ------------------------------------------------------------------ *)

\* only None turned away
parse_rejects_none_only(input) == input.kind = "None"

\* _parse_gcode_input raises ValueError for None and for any other type
parse_rejects(input) == input.kind = "None" \/ input.kind \notin {"Plate", "str"}

\* os.path.isfile(path)
isfile(path) == path \in DOMAIN Files

\* what a text-mode read makes of line ends: "\r\n" and "\r" become "\n"
RECURSIVE UniversalNewlines(_)
UniversalNewlines(s) ==
    IF s = <<>> THEN <<>>
    ELSE IF s[1] = "\r"
    THEN <<"\n">> \o UniversalNewlines(IF Len(s) > 1 /\ s[2] = "\n"
                                        THEN SubSeq(s, 3, Len(s)) ELSE Tail(s))
    ELSE <<s[1]>> \o UniversalNewlines(Tail(s))

\* with open(path) as f: f.read(), for a file of ASCII bytes
file_read(path) == UniversalNewlines(Decode(Files[path]))

\* a string taken as G-code without the file test
resolve_literal_only(input) ==
    IF input.kind = "Plate"
    THEN [via |-> "compile", compiles |-> 1, text |-> generate_gcode(input.plate)]
    ELSE [via |-> "literal", compiles |-> 0, text |-> input.text]

\* _parse_gcode_input past its type checks: which branch returns, how often
\* generate_gcode was called, and the string returned
resolve(input) ==
    IF input.kind = "Plate"
    THEN [via |-> "compile", compiles |-> 1, text |-> generate_gcode(input.plate)]
    ELSE IF isfile(input.text)
    THEN [via |-> "file", compiles |-> 0, text |-> file_read(input.text)]
    ELSE [via |-> "literal", compiles |-> 0, text |-> input.text]

\* _parse_gcode_input's return value
parse_gcode_input(input) == resolve(input).text

\* an exception of type Exception raised inside the try block
Raise(type, site) ==
    /\ exc' = [type |-> type, site |-> site]
    /\ fault' = [type |-> type, site |-> site]
    /\ pc' = "except"

\* send_gcode(input_data): a new call starts and parses its input
send_gcode_call(input) ==
    /\ UNCHANGED plateVars
    /\ shown' = <<>>
    /\ pc \in {"idle", "returned"}
    /\ lastOp' = NoOp("send_gcode")
    /\ lines' = <<>> /\ idx' = 1 /\ command' = <<>> /\ cb' = NoEntry
    /\ response' = <<>> /\ port' = "none" /\ wlog' = <<>> /\ calls' = <<>>
    /\ ltrace' = <<>> /\ kinds' = <<>> /\ stats' = NoStats
    /\ result' = [status |-> "running", exc |-> NoExc]
    /\ IF parse_rejects(input)
       THEN /\ Raise("ValueError", "parse")
            /\ gcode_str' = <<>>
            /\ source' = [input |-> input, via |-> "rejected", compiles |-> 0]
       ELSE /\ gcode_str' = parse_gcode_input(input)
            /\ source' = [input |-> input, via |-> resolve(input).via,
                          compiles |-> resolve(input).compiles]
            /\ exc' = NoExc
            /\ fault' = NoExc
            /\ pc' = "open"
    /\ UNCHANGED callbacks

\* cnc_serial = serial.Serial(...): binds cnc_serial, or raises leaving it unbound
send_gcode_open ==
    /\ UNCHANGED << source, plateVars >>
    /\ shown' = <<>>
    /\ pc = "open"
    /\ \/ /\ port' = "open"
          /\ stats' = [stats EXCEPT !.opens = @ + 1]
          /\ pc' = "flush"
          /\ UNCHANGED << exc, fault >>
       \/ /\ Raise("SerialException", "open")
          /\ UNCHANGED << port, stats >>
    /\ UNCHANGED << callbacks, lastOp, gcode_str, lines, idx, command, cb,
                    response, wlog, calls, ltrace, kinds, result >>

\* the for loop set up straight after the open, the input buffer not flushed
send_gcode_flush_skipped ==
    /\ UNCHANGED << source, plateVars >>
    /\ shown' = <<>>
    /\ pc = "flush"
    /\ lines' = SplitSep(gcode_str, "\n")
    /\ idx' = 1
    /\ pc' = "line"
    /\ UNCHANGED << callbacks, lastOp, gcode_str, command, cb, response, port,
                    wlog, calls, ltrace, kinds, result, exc, fault, stats >>

\* time.sleep(2); cnc_serial.flushInput(); then the for loop is set up
send_gcode_flush ==
    /\ UNCHANGED << source, plateVars >>
    /\ shown' = <<>>
    /\ pc = "flush"
    /\ \/ /\ stats' = [stats EXCEPT !.flushes = @ + 1]
          /\ lines' = SplitSep(gcode_str, "\n")
          /\ idx' = 1
          /\ pc' = "line"
          /\ UNCHANGED << exc, fault >>
       \/ /\ Raise("SerialException", "flush")
          /\ UNCHANGED << stats, lines, idx >>
    /\ UNCHANGED << callbacks, lastOp, gcode_str, command, cb, response, port,
                    wlog, calls, ltrace, kinds, result >>

(* ------------------------------------------------------------------ *)
(* CNCController.send_gcode: the for loop                              *)
(* ------------------------------------------------------------------ *)

\* the first token taken as written, letter case kept
first_command_raw(line) ==
    IF Strip(line) # <<>> THEN SplitWS(line)[1] ELSE <<>>

\* command = line.split()[0].lower() if line.strip() else None
first_command(line) ==
    IF Strip(line) # <<>> THEN Lower(SplitWS(line)[1]) ELSE <<>>

\* if command and command in self.callbacks
is_registered(cmd) == cmd # <<>> /\ cmd \in DOMAIN callbacks

\* the continue left out: the loop body goes on to the transmit branch
after_callback_falls_through == "write"

\* a break in place of the continue: the loop ends after the first handler
after_callback_breaks == "finally"

\* where the loop goes after callback(...): "continue" takes the next line
after_callback == "line"

\* a line counts as having text as soon as it has a character
has_text_nonempty(line) == line # <<>>

\* if line.strip()
has_text(line) == Strip(line) # <<>>

\* the for statement takes the next line, or the loop ends; a taken line goes
\* to the callback branch, to the transmit branch, or (blank) to nothing
send_gcode_line ==
    /\ UNCHANGED << source, plateVars >>
    /\ shown' = <<>>
    /\ pc = "line"
    /\ IF idx > Len(lines)
       THEN /\ pc' = "finally"
            /\ UNCHANGED << idx, command, cb, ltrace, kinds >>
       ELSE LET line == lines[idx]
                c == first_command(line)
            IN  /\ command' = c
                /\ ltrace' = <<>>
                /\ IF is_registered(c)
                   THEN /\ cb' = callbacks[c]
                        /\ kinds' = Append(kinds, "callback")
                        /\ pc' = "poll_write"
                        /\ UNCHANGED idx
                   ELSE IF has_text(line)
                   THEN /\ kinds' = Append(kinds, "command")
                        /\ pc' = "write"
                        /\ UNCHANGED << idx, cb >>
                   ELSE /\ kinds' = Append(kinds, "blank")
                        /\ idx' = idx + 1
                        /\ pc' = "line"
                        /\ UNCHANGED cb
    /\ UNCHANGED << callbacks, lastOp, gcode_str, lines, response, exc, fault, port,
                    wlog, calls, stats, result >>

(* ------------------------------------------------------------------ *)
(* CNCController.wait_for_idle                                         *)
(* ------------------------------------------------------------------ *)

\* the status test made on the lower-cased response
is_idle_anycase(resp) == Contains(Lower(resp), <<"<", "i", "d", "l", "e">>)

\* if "<Idle" in response
is_idle(resp) == Contains(resp, <<"<", "I", "d", "l", "e">>)

\* cnc_serial.write(b"?")
wait_for_idle_write ==
    /\ UNCHANGED << source, plateVars >>
    /\ shown' = <<>>
    /\ pc = "poll_write"
    /\ \/ /\ wlog' = Append(wlog, [at |-> idx, data |-> StatusQuery])
          /\ ltrace' = Append(ltrace, "query")
          /\ pc' = "poll_read"
          /\ UNCHANGED << exc, fault >>
       \/ /\ Raise("SerialException", "write")
          /\ ltrace' = Append(ltrace, "fault")
          /\ UNCHANGED wlog
    /\ UNCHANGED << callbacks, lastOp, gcode_str, lines, idx, command, cb,
                    response, port, calls, kinds, stats, result >>

\* response = cnc_serial.readline().decode().strip(); break if "<Idle" in it
wait_for_idle_read ==
    /\ UNCHANGED << source, plateVars >>
    /\ pc = "poll_read"
    /\ \/ \E b \in Responses :
            IF ~Decodable(b)
            THEN /\ Raise("UnicodeDecodeError", "decode")
                 /\ ltrace' = Append(ltrace, "fault")
                 /\ shown' = <<>>
                 /\ UNCHANGED response
            ELSE /\ response' = Strip(Decode(b))
                 /\ shown' = << Msg("CNC Status: ", response') >>
                 /\ UNCHANGED << exc, fault >>
                 /\ IF is_idle(response')
                    THEN /\ ltrace' = Append(ltrace, "idle")
                         /\ pc' = "settle"
                    ELSE /\ Count(ltrace, "busy") < MaxPoll
                         /\ ltrace' = Append(ltrace, "busy")
                         /\ pc' = "poll_sleep"
       \/ /\ Raise("SerialException", "read")
          /\ ltrace' = Append(ltrace, "fault")
          /\ shown' = <<>>
          /\ UNCHANGED response
    /\ UNCHANGED << callbacks, lastOp, gcode_str, lines, idx, command, cb,
                    port, wlog, calls, kinds, stats, result >>

\* the status query written once, before the loop, and only the read repeated
wait_for_idle_sleep_noquery ==
    /\ UNCHANGED << source, plateVars >>
    /\ shown' = <<>>
    /\ pc = "poll_sleep"
    /\ ltrace' = Append(ltrace, "sleep")
    /\ pc' = "poll_read"
    /\ UNCHANGED << callbacks, lastOp, gcode_str, lines, idx, command, cb,
                    response, exc, fault, port, wlog, calls, kinds, stats, result >>

\* the poller giving up after the sleep with an error of its own
wait_for_idle_sleep_timeout ==
    /\ UNCHANGED << source, plateVars >>
    /\ shown' = <<>>
    /\ pc = "poll_sleep"
    /\ Raise("TimeoutError", "poll")
    /\ ltrace' = Append(ltrace, "fault")
    /\ UNCHANGED << callbacks, lastOp, gcode_str, lines, idx, command, cb,
                    response, port, wlog, calls, kinds, stats, result >>

\* time.sleep(0.1) between two status queries
wait_for_idle_sleep ==
    /\ UNCHANGED << source, plateVars >>
    /\ shown' = <<>>
    /\ pc = "poll_sleep"
    /\ ltrace' = Append(ltrace, "sleep")
    /\ pc' = "poll_write"
    /\ UNCHANGED << callbacks, lastOp, gcode_str, lines, idx, command, cb,
                    response, exc, fault, port, wlog, calls, kinds, stats, result >>

(* ------------------------------------------------------------------ *)
(* CNCController.send_gcode: the callback branch                       *)
(* ------------------------------------------------------------------ *)

\* time.sleep(0.1) after wait_for_idle returned
send_gcode_settle ==
    /\ UNCHANGED << source, plateVars >>
    /\ shown' = <<>>
    /\ pc = "settle"
    /\ ltrace' = Append(ltrace, "settle")
    /\ pc' = "invoke"
    /\ UNCHANGED << callbacks, lastOp, gcode_str, lines, idx, command, cb,
                    response, exc, fault, port, wlog, calls, kinds, stats, result >>

\* callback(line, *args, **kwargs): the handler is entered
send_gcode_callback ==
    /\ UNCHANGED << source, plateVars >>
    /\ shown' = <<>>
    /\ pc = "invoke"
    /\ calls' = Append(calls, [at |-> idx, callback |-> cb.callback,
                               line |-> lines[idx], args |-> cb.args,
                               kwargs |-> cb.kwargs])
    /\ ltrace' = Append(ltrace, "invoke")
    /\ pc' = "handler"
    /\ UNCHANGED << callbacks, lastOp, gcode_str, lines, idx, command, cb,
                    response, exc, fault, port, wlog, kinds, stats, result >>

\* the handler returns; continue
callback_return ==
    /\ UNCHANGED << source, plateVars >>
    /\ shown' = <<>>
    /\ pc = "handler"
    /\ ltrace' = Append(ltrace, "return")
    /\ pc' = after_callback
    /\ idx' = IF after_callback = "line" THEN idx + 1 ELSE idx
    /\ UNCHANGED << callbacks, lastOp, gcode_str, lines, command, cb,
                    response, exc, fault, port, wlog, calls, kinds, stats, result >>

\* the handler's exception caught around the call and dropped
callback_raise_swallowed ==
    /\ UNCHANGED << source, plateVars >>
    /\ shown' = <<>>
    /\ pc = "handler"
    /\ ltrace' = Append(ltrace, "fault")
    /\ fault' = [type |-> "Exception", site |-> "handler"]
    /\ idx' = idx + 1
    /\ pc' = "line"
    /\ UNCHANGED << callbacks, lastOp, gcode_str, lines, command, cb, response,
                    exc, port, wlog, calls, kinds, stats, result >>

\* the handler raises: an Exception is caught by the except clause, any other
\* BaseException (KeyboardInterrupt, SystemExit) passes it by
callback_raise ==
    /\ UNCHANGED << source, plateVars >>
    /\ shown' = <<>>
    /\ pc = "handler"
    /\ ltrace' = Append(ltrace, "fault")
    /\ \/ Raise("Exception", "handler")
       \/ /\ exc' = [type |-> "BaseException", site |-> "handler"]
          /\ fault' = [type |-> "BaseException", site |-> "handler"]
          /\ pc' = "finally"
    /\ UNCHANGED << callbacks, lastOp, gcode_str, lines, idx, command, cb,
                    response, port, wlog, calls, kinds, stats, result >>

\* the handler's registration kept from the registry the loop reads
callback_registers_deferred(cmd, callback, bound) ==
    /\ UNCHANGED << source, plateVars >>
    /\ shown' = <<>>
    /\ pc = "handler"
    /\ lastOp' = [op |-> "register_callback", command |-> cmd,
                  callback |-> callback, bound |-> bound]
    /\ UNCHANGED << callbacks, pc, gcode_str, lines, idx, command, cb, response,
                    exc, fault, port, wlog, calls, ltrace, kinds, stats, result >>

\* the running handler calls register_callback on the controller that is
\* dispatching: self.callbacks[command.lower()] = (callback, args, kwargs), and
\* the handler goes on
callback_registers(cmd, callback, bound) ==
    /\ UNCHANGED << source, plateVars >>
    /\ shown' = <<>>
    /\ pc = "handler"
    /\ callbacks' = DictSet(callbacks, registry_key(cmd),
                            [callback |-> callback, args |-> bound.args,
                             kwargs |-> bound.kwargs])
    /\ lastOp' = [op |-> "register_callback", command |-> cmd,
                  callback |-> callback, bound |-> bound]
    /\ UNCHANGED << pc, gcode_str, lines, idx, command, cb, response, exc,
                    fault, port, wlog, calls, ltrace, kinds, stats, result >>

(* ------------------------------------------------------------------ *)
(* CNCController.send_gcode: the transmit branch                       *)
(* ------------------------------------------------------------------ *)

\* the while test made on the response as it was read, letter case kept
is_ok_exact(resp) == Contains(resp, <<"o", "k">>)

\* while "ok" not in response.lower()  (negated: the test that ends the wait)
is_ok(resp) == Contains(Lower(resp), <<"o", "k">>)

\* the line tidied before it is sent
line_bytes_stripped(line) == Encode(Strip(line) \o <<"\n">>)

\* the bytes written for a script line: (line + "\n").encode()
line_bytes(line) == Encode(line \o <<"\n">>)

\* the line written and the loop moving on without the acknowledgment wait
send_gcode_write_nowait ==
    /\ UNCHANGED << source, plateVars >>
    /\ pc = "write"
    /\ shown' = << Msg("Sent: ", lines[idx]) >>
    /\ wlog' = Append(wlog, [at |-> idx, data |-> line_bytes(lines[idx])])
    /\ stats' = [stats EXCEPT !.sent = @ + 1]
    /\ ltrace' = Append(ltrace, "send")
    /\ idx' = idx + 1
    /\ pc' = "line"
    /\ UNCHANGED << callbacks, lastOp, gcode_str, lines, command, cb, response,
                    exc, fault, port, calls, kinds, result >>

\* cnc_serial.write((line + "\n").encode())
send_gcode_write ==
    /\ UNCHANGED << source, plateVars >>
    /\ pc = "write"
    /\ \/ /\ wlog' = Append(wlog, [at |-> idx, data |-> line_bytes(lines[idx])])
          /\ stats' = [stats EXCEPT !.sent = @ + 1]
          /\ ltrace' = Append(ltrace, "send")
          /\ shown' = << Msg("Sent: ", lines[idx]) >>
          /\ pc' = "ack_first"
          /\ UNCHANGED << exc, fault >>
       \/ /\ Raise("SerialException", "write")
          /\ ltrace' = Append(ltrace, "fault")
          /\ shown' = <<>>
          /\ UNCHANGED << wlog, stats >>
    /\ UNCHANGED << callbacks, lastOp, gcode_str, lines, idx, command, cb,
                    response, port, calls, kinds, result >>

\* what a readline of the acknowledgment wait prints: a response read inside
\* the while loop is printed when it is not empty; the one read before the loop
\* is not printed
response_prints(first, resp) ==
    IF ~first /\ resp # <<>> THEN << Msg("CNC Response: ", resp) >> ELSE <<>>

\* print(f"CNC confirmed 'OK' for: {line}") once the while test has failed
confirm_prints(resp, line) ==
    IF is_ok(resp) THEN << Msg("CNC confirmed 'OK' for: ", line) >> ELSE <<>>

\* one response = cnc_serial.readline().decode().strip() of the acknowledgment
\* wait (first: the one before the while loop), followed by the while test
ReadAck(first) ==
    \/ \E b \in Responses :
         IF ~Decodable(b)
         THEN /\ Raise("UnicodeDecodeError", "decode")
              /\ ltrace' = Append(ltrace, "fault")
              /\ shown' = <<>>
              /\ UNCHANGED << response, stats >>
         ELSE /\ response' = Strip(Decode(b))
              /\ shown' = response_prints(first, response')
                             \o confirm_prints(response', lines[idx])
              /\ UNCHANGED << exc, fault >>
              /\ IF is_ok(response')
                 THEN /\ ltrace' = Append(ltrace, "ack")
                      /\ stats' = [stats EXCEPT !.acked = @ + 1]
                      /\ pc' = "ack_sleep"
                 ELSE /\ Count(ltrace, "nak") < MaxAck
                      /\ ltrace' = Append(ltrace, "nak")
                      /\ pc' = "ack_loop"
                      /\ UNCHANGED stats
    \/ /\ Raise("SerialException", "read")
       /\ ltrace' = Append(ltrace, "fault")
       /\ shown' = <<>>
       /\ UNCHANGED << response, stats >>

\* the readline before the while loop
send_gcode_ack_first ==
    /\ UNCHANGED << source, plateVars >>
    /\ pc = "ack_first"
    /\ ReadAck(TRUE)
    /\ UNCHANGED << callbacks, lastOp, gcode_str, lines, idx, command, cb,
                    port, wlog, calls, kinds, result >>

\* a readline inside the while loop
send_gcode_ack_loop ==
    /\ UNCHANGED << source, plateVars >>
    /\ pc = "ack_loop"
    /\ ReadAck(FALSE)
    /\ UNCHANGED << callbacks, lastOp, gcode_str, lines, idx, command, cb,
                    port, wlog, calls, kinds, result >>

\* the poller run after every acknowledged command as well
send_gcode_ack_sleep_polls ==
    /\ UNCHANGED << source, plateVars >>
    /\ shown' = <<>>
    /\ pc = "ack_sleep"
    /\ ltrace' = Append(ltrace, "pause")
    /\ pc' = "poll_write"
    /\ UNCHANGED << callbacks, lastOp, gcode_str, lines, idx, command, cb,
                    response, exc, fault, port, wlog, calls, kinds, stats, result >>

\* time.sleep(0.1) after the acknowledgment; the loop body ends
send_gcode_ack_sleep ==
    /\ UNCHANGED << source, plateVars >>
    /\ shown' = <<>>
    /\ pc = "ack_sleep"
    /\ ltrace' = Append(ltrace, "pause")
    /\ idx' = idx + 1
    /\ pc' = "line"
    /\ UNCHANGED << callbacks, lastOp, gcode_str, lines, command, cb,
                    response, exc, fault, port, wlog, calls, kinds, stats, result >>

(* ------------------------------------------------------------------ *)
(* CNCController.send_gcode: except and finally                        *)
(* ------------------------------------------------------------------ *)

\* raise RuntimeError(...) in place of the bare raise
reraised_wrapped(e) == [type |-> "RuntimeError", site |-> e.site]

\* except Exception as e: print(...); raise  -- the exception that leaves
reraised(e) == e

\* a close placed at the end of the try block instead of in finally
closes_port_on_success(p) == p # "none" /\ exc = NoExc

\* the close attempted whether or not the transport was opened
closes_port_always(p) == TRUE

\* if "cnc_serial" in locals()
closes_port(p) == p # "none"

\* the except clause
send_gcode_except ==
    /\ UNCHANGED << source, plateVars >>
    /\ shown' = << Msg("Error communicating with CNC: ", <<>>) >>
    /\ pc = "except"
    /\ exc' = reraised(exc)
    /\ pc' = "finally"
    /\ UNCHANGED << fault, callbacks, lastOp, gcode_str, lines, idx, command, cb,
                    response, port, wlog, calls, ltrace, kinds, stats, result >>

\* the finally clause emptying the registry as the call ends
send_gcode_finally_clears ==
    /\ UNCHANGED << source, plateVars >>
    /\ pc = "finally"
    /\ IF closes_port(port)
       THEN /\ port' = "closed"
            /\ stats' = [stats EXCEPT !.closes = @ + 1]
            /\ shown' = << Msg("CNC connection closed.", <<>>) >>
       ELSE /\ shown' = <<>>
            /\ UNCHANGED << port, stats >>
    /\ result' = IF exc = NoExc
                 THEN [status |-> "returned", exc |-> NoExc]
                 ELSE [status |-> "raised", exc |-> exc]
    /\ exc' = NoExc
    /\ command' = <<>> /\ cb' = NoEntry /\ response' = <<>>
    /\ callbacks' = <<>>
    /\ pc' = "returned"
    /\ UNCHANGED << lastOp, gcode_str, lines, idx, fault, wlog,
                    calls, ltrace, kinds >>

\* the finally clause (time.sleep(1); cnc_serial.close()), then the call ends
\* and its locals command, callback/args/kwargs and response are gone
send_gcode_finally ==
    /\ UNCHANGED << source, plateVars >>
    /\ pc = "finally"
    /\ IF closes_port(port)
       THEN /\ port' = "closed"
            /\ stats' = [stats EXCEPT !.closes = @ + 1]
            /\ shown' = << Msg("CNC connection closed.", <<>>) >>
       ELSE /\ shown' = <<>>
            /\ UNCHANGED << port, stats >>
    /\ result' = IF exc = NoExc
                 THEN [status |-> "returned", exc |-> NoExc]
                 ELSE [status |-> "raised", exc |-> exc]
    /\ exc' = NoExc
    /\ command' = <<>> /\ cb' = NoEntry /\ response' = <<>>
    /\ pc' = "returned"
    /\ UNCHANGED << callbacks, lastOp, gcode_str, lines, idx, fault, wlog,
                    calls, ltrace, kinds >>

(* ------------------------------------------------------------------ *)
(* Specification                                                       *)
(* ------------------------------------------------------------------ *)

Next ==
    \/ \E r \in Registrations : register_callback(r.command, r.callback, r.bound)
    \/ \E input \in InputData : send_gcode_call(input)
    \/ send_gcode_open
    \/ send_gcode_flush
    \/ send_gcode_line
    \/ wait_for_idle_write
    \/ wait_for_idle_read
    \/ wait_for_idle_sleep
    \/ send_gcode_settle
    \/ send_gcode_callback
    \/ callback_return
    \/ callback_raise
    \/ send_gcode_write
    \/ send_gcode_ack_first
    \/ send_gcode_ack_loop
    \/ send_gcode_ack_sleep
    \/ send_gcode_except
    \/ send_gcode_finally

Spec == Init /\ [][Next]_vars

(* ------------------------------------------------------------------ *)
(* Plate: the object and the calls made on it                          *)
(* ------------------------------------------------------------------ *)

\* most well-assignment calls (set_custom, set_serial_dilutions) on one plate
MaxOps == 2

\* largest num_dilutions given to set_serial_dilutions
MaxDilutions == 2

\* the plates constructed: Plate(2, 3); Plate(2, 3, x_spacing=4.5,
\* y_spacing=18, z_read=2.5, offset_y=0.25, z_safe=10); Plate(27, 1)
Plates ==
    { Plate(2, 3, 900, 900, -500, -9000, 0),
      Plate(2, 3, 450, 1800, 250, 25, 1000),
      Plate(27, 1, 900, 900, -500, -9000, 0) }

\* the positions given to set_custom and set_serial_dilutions
Positions ==
    { <<"A", "1">>, <<"A", "3">>, <<"B", "3">>, <<"A", "4">>, <<"C", "1">>, <<"A", "0">>, <<"@", "1">>, <<">", "1">>, <<"[", "1">> }

Plate_init ==
    /\ ControllerInit
    /\ plate \in Plates
    /\ plateOp = NoPlateOp(plate)
    /\ gcode = <<>>
    /\ nassign = 0
    /\ lookup = NoLookup

\* plate.set_custom(pos, 1.5, "Substance1", "blue")
Plate_set_custom(pos) ==
    /\ nassign < MaxOps
    /\ LET out == set_custom(plate, pos, CustomValue, "Substance1", "blue")
       IN  /\ plate' = out.plate
           /\ plateOp' = [op |-> "set_custom", pos |-> pos, num |-> 0,
                          before |-> plate.data, raised |-> out.raised]
    /\ gcode' = <<>>
    /\ nassign' = nassign + 1
    /\ UNCHANGED << lookup, controllerVars >>

\* plate.set_serial_dilutions(pos, 1.0, 10, n, "Substance2", "red")
Plate_set_serial_dilutions(pos, n) ==
    /\ nassign < MaxOps
    /\ LET out == set_serial_dilutions(plate, pos, InitialConcentration,
                                       DilutionFactor, n, "Substance2", "red")
       IN  /\ plate' = out.plate
           /\ plateOp' = [op |-> "set_serial_dilutions", pos |-> pos, num |-> n,
                          before |-> plate.data, raised |-> out.raised]
    /\ gcode' = <<>>
    /\ nassign' = nassign + 1
    /\ UNCHANGED << lookup, controllerVars >>

\* plate.generate_gcode()
Plate_generate_gcode ==
    /\ gcode' = generate_gcode(plate)
    /\ plateOp' = [op |-> "generate_gcode", pos |-> <<>>, num |-> 0,
                   before |-> plate.data, raised |-> ""]
    /\ UNCHANGED << plate, nassign, lookup, controllerVars >>

PlateNext ==
    \/ \E pos \in Positions : Plate_set_custom(pos)
    \/ \E pos \in Positions : \E n \in 0..MaxDilutions :
           Plate_set_serial_dilutions(pos, n)
    \/ Plate_generate_gcode

PlateSpec == Plate_init /\ [][PlateNext]_vars


(* ------------------------------------------------------------------ *)
(* Specification with progress: one dispatch of a script text          *)
(* ------------------------------------------------------------------ *)

\* the scripts dispatched, given as text: a command alone, a callback line
\* before a command, and a blank line, a command, a callback line and the
\* empty last line a final newline leaves
LiveScripts ==
    { <<<<"G", "0">>>>,
      <<<<" ", "R", "e", "a", "d", " ", "A", "1", " ">>, <<"G", "0">>>>,
      <<<<" ", "\t">>, <<"G", "0">>, <<" ", "R", "e", "a", "d", " ", "A", "1", " ">>, <<>>>> }

LiveInputs == { [kind |-> "str", text |-> Join(ls), plate |-> NoPlate] : ls \in LiveScripts }

\* a step of a send_gcode call that has started: the statement the call is at
send_gcode_step ==
    \/ send_gcode_open
    \/ send_gcode_flush
    \/ send_gcode_line
    \/ wait_for_idle_write
    \/ wait_for_idle_read
    \/ wait_for_idle_sleep
    \/ send_gcode_settle
    \/ send_gcode_callback
    \/ callback_return
    \/ callback_raise
    \/ send_gcode_write
    \/ send_gcode_ack_first
    \/ send_gcode_ack_loop
    \/ send_gcode_ack_sleep
    \/ send_gcode_except
    \/ send_gcode_finally

\* handlers are registered on a new controller, then one script is dispatched
LiveNext ==
    \/ pc = "idle" /\ \E r \in Registrations :
                         register_callback(r.command, r.callback, r.bound)
    \/ pc = "idle" /\ \E input \in LiveInputs : send_gcode_call(input)
    \/ send_gcode_step

\* send_gcode runs in one thread with nothing else going on: a call that has a
\* statement to execute executes it.  The device answers each wait within
\* MaxPoll status responses and MaxAck acknowledgment responses, and a handler
\* returns or raises in one step.
LiveSpec == Init /\ [][LiveNext]_vars /\ WF_vars(send_gcode_step)

(* ------------------------------------------------------------------ *)
(* A plate filled, 'Read' registered, and the plate dispatched         *)
(* ------------------------------------------------------------------ *)

\* the plate of the end-to-end run: 2 rows, 3 columns, the default geometry
ReadPlate == Plate(2, 3, 900, 900, -500, -9000, 0)

\* the wells given to set_custom before the dispatch
ReadPositions == { <<"A", "1">>, <<"A", "3">>, <<"B", "1">> }

\* controller.register_callback("Read", handler)
ReadRegistration ==
    [command |-> <<"R", "e", "a", "d">>, callback |-> "h1", bound |-> BoundNone]

ReadPlate_init ==
    /\ ControllerInit
    /\ plate = ReadPlate
    /\ plateOp = NoPlateOp(plate)
    /\ gcode = <<>>
    /\ nassign = 0
    /\ lookup = NoLookup

\* wells are filled, then the handler is registered, then the plate itself is
\* given to send_gcode once
ReadPlateNext ==
    \/ /\ pc = "idle" /\ callbacks = <<>>
       /\ \E pos \in ReadPositions : Plate_set_custom(pos)
    \/ /\ pc = "idle" /\ callbacks = <<>>
       /\ register_callback(ReadRegistration.command, ReadRegistration.callback, ReadRegistration.bound)
    \/ /\ pc = "idle" /\ callbacks # <<>>
       /\ send_gcode_call([kind |-> "Plate", text |-> <<>>, plate |-> plate])
    \/ send_gcode_step

ReadPlateSpec == ReadPlate_init /\ [][ReadPlateNext]_vars

(* ------------------------------------------------------------------ *)
(* A handler that registers while the dispatch is running              *)
(* ------------------------------------------------------------------ *)

\* the script dispatched: a command, a 'Read' line, the same command again, and
\* a second 'Read' line in another letter case
HandlerScripts ==
    { << <<"G", "0">>, <<" ", "R", "e", "a", "d", " ", "A", "1", " ">>, <<"G", "0">>, <<"r", "e", "a", "d", " ", "B", "1">> >> }

HandlerInputs ==
    { [kind |-> "str", text |-> Join(ls), plate |-> NoPlate] : ls \in HandlerScripts }

\* the registration made before the dispatch
FirstRegistration ==
    [command |-> <<"R", "e", "a", "d">>, callback |-> "h1", bound |-> BoundNone]

\* what a running handler may register: a keyword new to the registry, and its
\* own keyword with another handler and other bound arguments
HandlerRegistrations ==
    { [command |-> <<"G", "0">>, callback |-> "h2", bound |-> BoundNone],
      [command |-> <<"R", "E", "A", "D">>, callback |-> "h2", bound |-> BoundExtra] }

HandlerNext ==
    \/ /\ pc = "idle" /\ callbacks = <<>>
       /\ register_callback(FirstRegistration.command, FirstRegistration.callback,
                            FirstRegistration.bound)
    \/ /\ pc = "idle" /\ callbacks # <<>>
       /\ \E input \in HandlerInputs : send_gcode_call(input)
    \/ send_gcode_step
    \/ \E r \in HandlerRegistrations :
           callback_registers(r.command, r.callback, r.bound)

HandlerSpec == Init /\ [][HandlerNext]_vars

(* ------------------------------------------------------------------ *)
(* Plate.pos_to_index and Plate.index_to_pos called on a plate         *)
(* ------------------------------------------------------------------ *)

\* the rows, columns and indices the two methods are called with: the grid
\* and one step past it on either side
LookupRows == -1 .. plate.rows

LookupCols == -1 .. plate.cols

LookupIndices == -1 .. (plate.rows * plate.cols)

\* plate.pos_to_index(row, col)
Plate_pos_to_index(row, col) ==
    /\ lookup' = [op |-> "pos_to_index", row |-> row, col |-> col,
                  index |-> pos_to_index(plate, row, col)]
    /\ UNCHANGED << plate, plateOp, gcode, nassign, controllerVars >>

\* plate.index_to_pos(index)
Plate_index_to_pos(index) ==
    /\ lookup' = [op |-> "index_to_pos", row |-> index_to_pos(plate, index)[1],
                  col |-> index_to_pos(plate, index)[2], index |-> index]
    /\ UNCHANGED << plate, plateOp, gcode, nassign, controllerVars >>

IndexNext ==
    \/ \E row \in LookupRows : \E col \in LookupCols : Plate_pos_to_index(row, col)
    \/ \E index \in LookupIndices : Plate_index_to_pos(index)

IndexSpec == Plate_init /\ [][IndexNext]_vars

(* ------------------------------------------------------------------ *)
(* Vocabulary of the properties                                        *)
(* ------------------------------------------------------------------ *)

\* a line with a character that is not whitespace
NonBlank(line) == \E i \in 1..Len(line) : line[i] \notin Whitespace

\* the first whitespace-delimited token of a non-blank line
FirstToken(line) ==
    LET a == CHOOSE i \in 1..Len(line) :
                 line[i] \notin Whitespace /\ \A j \in 1..(i - 1) : line[j] \in Whitespace
        rest == SubSeq(line, a, Len(line))
    IN  SubSeq(rest, 1, FirstIn(rest, Whitespace) - 1)

\* the line's token, lower-cased, has an entry in the registry
Triggers(line) == NonBlank(line) /\ Lower(FirstToken(line)) \in DOMAIN callbacks

\* positions in wlog of the writes made while the loop was at line j
WritesAt(j) == { i \in 1..Len(wlog) : wlog[i].at = j }

\* positions in calls of the handler invocations made for line j
CallsAt(j) == { i \in 1..Len(calls) : calls[i].at = j }

\* lines among the first n the loop treated as kind k
KindCount(n, k) == Cardinality({ j \in 1..n : j <= Len(kinds) /\ kinds[j] = k })

IdleToken == <<"<", "I", "d", "l", "e">>

(* ------------------------------------------------------------------ *)
(* C1                                                                  *)
(* ------------------------------------------------------------------ *)

\* C1: in every send_gcode call that opened the transport, close is called
\* exactly once by the time the call ends, whatever the exit path (all lines
\* done, a write or read fault, a flushInput fault, a handler exception); it is
\* never called twice or on a transport that was not opened, and once the
\* transport is closed the call is over: no write and no handler follows.
C1_ClosedExactlyOnce ==
    /\ stats.closes <= 1
    /\ stats.closes <= stats.opens
    /\ (pc = "returned" /\ stats.opens > 0) => (stats.closes = 1 /\ port = "closed")
    /\ (port = "closed") <=> (stats.closes = 1)
    /\ (port = "closed") => (pc = "returned")

\* a call that wrote to the transport, invoked a handler that raised, and
\* ended with the transport closed once
C1_Witness ==
    /\ pc = "returned"
    /\ result.status = "raised"
    /\ fault.site = "handler"
    /\ Len(wlog) > 0
    /\ stats.closes = 1

(* ------------------------------------------------------------------ *)
(* C2                                                                  *)
(* ------------------------------------------------------------------ *)

ReadLine == <<" ", "R", "e", "a", "d", " ", "A", "1", " ">>

\* C2: for every line the loop has taken that is non-blank and whose
\* lower-cased first token has a registry entry: nothing but status queries is
\* written while the loop is at that line (the line itself never is), the
\* handler is invoked at most once for it and exactly once when the loop has
\* moved past it, and the invocation carries the registered handler, the whole
\* original line, and the args and kwargs bound at registration.  No line is
\* both transmitted and handed to a handler.
C2_CallbackLineNotTransmitted ==
    \A j \in 1..Len(kinds) :
        LET line == lines[j]
            written == \E i \in WritesAt(j) : wlog[i].data # StatusQuery
        IN  /\ Triggers(line) =>
                LET entry == callbacks[Lower(FirstToken(line))]
                IN  /\ ~written
                    /\ \A i \in WritesAt(j) : wlog[i].data # Encode(line \o <<"\n">>)
                    /\ Cardinality(CallsAt(j)) <= 1
                    /\ (j < idx) => (Cardinality(CallsAt(j)) = 1)
                    /\ \A i \in CallsAt(j) :
                         calls[i] = [at |-> j, callback |-> entry.callback,
                                     line |-> line, args |-> entry.args,
                                     kwargs |-> entry.kwargs]
            /\ ~(written /\ CallsAt(j) # {})

\* the loop has moved past an action marker that went, whitespace and all, to
\* handler h2 with its bound arguments, and a motion command was transmitted
C2_Witness ==
    /\ \E i \in 1..Len(calls) :
         /\ calls[i].line = ReadLine
         /\ calls[i].callback = "h2"
         /\ calls[i].args = <<"extra_arg">>
         /\ calls[i].at < idx
    /\ \E i \in 1..Len(wlog) : wlog[i].data = Encode(<<"G", "0", "\n">>)

(* ------------------------------------------------------------------ *)
(* C3                                                                  *)
(* ------------------------------------------------------------------ *)

\* the lines of the script that are not blank, in document order
NonBlankLines == SelectSeq(lines, NonBlank)

\* the call ended normally on a script none of whose lines triggers a handler
PlainScriptDone ==
    /\ pc = "returned"
    /\ result.status = "returned"
    /\ \A j \in 1..Len(lines) : ~Triggers(lines[j])

\* C3: when no line of the script matches a registered keyword and the call
\* ran to its normal end, the transport was written exactly once per
\* non-blank line, in document order, each write the line as it stands plus
\* one newline; the script has one line more than it has newlines, and every
\* transmitted command got exactly one completed acknowledgment wait.
C3_OneWritePerNonBlankLine ==
    PlainScriptDone =>
        /\ Len(lines) = Count(gcode_str, "\n") + 1
        /\ Len(wlog) = Len(NonBlankLines)
        /\ \A i \in 1..Len(wlog) :
             wlog[i].data = Encode(NonBlankLines[i] \o <<"\n">>)
        /\ \A i, k \in 1..Len(wlog) : (i < k) => (wlog[i].at < wlog[k].at)
        /\ stats.sent = Len(NonBlankLines)
        /\ stats.acked = Len(NonBlankLines)

\* an unregistered action marker and a motion command were both transmitted
C3_Witness ==
    /\ PlainScriptDone
    /\ Len(wlog) = 2
    /\ wlog[1].data = Encode(ReadLine \o <<"\n">>)
    /\ Len(lines) = 2

(* ------------------------------------------------------------------ *)
(* C4                                                                  *)
(* ------------------------------------------------------------------ *)

\* a write or a read of the transport has raised in this call
TransportFault == fault.type = "SerialException" /\ fault.site \in {"write", "read"}

\* the call is unwinding or has ended
Unwinding == pc \in {"except", "finally", "returned"}

\* nothing was written and no handler invoked for a line after line k
NothingAfter(k) ==
    /\ Len(kinds) <= k
    /\ \A i \in 1..Len(wlog) : wlog[i].at <= k
    /\ \A i \in 1..Len(calls) : calls[i].at <= k

\* every line before line k that went to the transmit branch was written once,
\* as the line plus newline, and acknowledged
EarlierCommandsAcked(k) ==
    /\ \A j \in 1..(k - 1) :
         kinds[j] = "command" =>
            /\ Cardinality(WritesAt(j)) = 1
            /\ \A i \in WritesAt(j) : wlog[i].data = Encode(lines[j] \o <<"\n">>)
    /\ stats.acked = KindCount(k - 1, "command")

\* C4: once a transport write or read has raised at line k the call only
\* unwinds: every earlier command line was transmitted once and acknowledged,
\* nothing is written and no handler invoked for a later line, the failed
\* operation is the last thing done for line k (no retry, no handler after
\* it), the exception that reaches finally and then the caller is the one that
\* was raised, and the call ends with the transport closed once.
C4_TransportFaultAborts ==
    TransportFault =>
        /\ Unwinding
        /\ Len(kinds) = idx
        /\ EarlierCommandsAcked(idx)
        /\ NothingAfter(idx)
        /\ Count(ltrace, "fault") = 1
        /\ ltrace[Len(ltrace)] = "fault"
        /\ (pc = "finally") => (exc = fault)
        /\ (pc = "returned") =>
              /\ result = [status |-> "raised", exc |-> fault]
              /\ stats.closes = 1
              /\ port = "closed"

\* the call ended on a read fault at the second of two command lines, the first
\* having been transmitted and acknowledged
C4_Witness ==
    /\ pc = "returned"
    /\ TransportFault
    /\ fault.site = "read"
    /\ idx = 2
    /\ kinds = <<"command", "command">>
    /\ stats.acked = 1

(* ------------------------------------------------------------------ *)
(* C5                                                                  *)
(* ------------------------------------------------------------------ *)

\* a handler has raised in this call
HandlerFault == fault.site = "handler"

\* C5: once a handler has raised at line k the call only unwinds: the handler
\* was invoked once for line k, line k itself was not written, nothing is
\* written and no handler invoked for a later line, and the call ends by
\* raising the handler's exception to the caller with the transport closed.
C5_HandlerFaultPropagates ==
    HandlerFault =>
        /\ Unwinding
        /\ Len(kinds) = idx
        /\ kinds[idx] = "callback"
        /\ NothingAfter(idx)
        /\ Cardinality(CallsAt(idx)) = 1
        /\ \A i \in WritesAt(idx) : wlog[i].data = StatusQuery
        /\ ltrace[Len(ltrace)] = "fault"
        /\ (pc = "returned") =>
              /\ result = [status |-> "raised", exc |-> fault]
              /\ stats.closes = 1
              /\ port = "closed"

\* a handler raised at the first line of a script whose second line is a
\* command or an action marker; the call has ended
C5_Witness ==
    /\ pc = "returned"
    /\ HandlerFault
    /\ idx = 1
    /\ Len(lines) = 2
    /\ NonBlank(lines[2])

(* ------------------------------------------------------------------ *)
(* C6                                                                  *)
(* ------------------------------------------------------------------ *)

\* C6: for a callback line the handler is invoked only straight after the
\* settle delay, which comes straight after a status query whose response
\* contained "<Idle"; before that response there are only queries, non-Idle
\* responses and retry delays.  While the handler is about to run or running,
\* the response last read still contains "<Idle" and every earlier command
\* line has been transmitted and acknowledged, none being outstanding.
C6_IdleThenSettleThenHandler ==
    /\ \A p \in 1..Len(ltrace) :
         /\ (ltrace[p] = "invoke") =>
               /\ p >= 4
               /\ ltrace[p - 1] = "settle"
               /\ ltrace[p - 2] = "idle"
               /\ ltrace[p - 3] = "query"
         /\ (ltrace[p] = "idle") =>
               \A q \in 1..(p - 1) : ltrace[q] \in {"query", "busy", "sleep"}
    /\ Count(ltrace, "invoke") <= 1
    /\ (pc \in {"settle", "invoke", "handler"}) =>
          /\ Contains(response, IdleToken)
          /\ EarlierCommandsAcked(idx)
          /\ stats.sent = stats.acked

\* a handler is running after two non-Idle status responses and an Idle one,
\* an earlier command line having been acknowledged
C6_Witness ==
    /\ pc = "handler"
    /\ Count(ltrace, "busy") = 2
    /\ stats.acked = 1

(* ------------------------------------------------------------------ *)
(* C7                                                                  *)
(* ------------------------------------------------------------------ *)

\* C7: when wait_for_idle returns after N responses without "<Idle" and one
\* with it, it has written N+1 times, each time the single byte "?", and has
\* read N+1 responses, the Idle one last; while it runs it writes nothing but
\* "?".
C7_QueriesAreNPlusOne ==
    /\ (pc = "settle") =>
          LET N == Count(ltrace, "busy")
          IN  /\ Count(ltrace, "query") = N + 1
              /\ Count(ltrace, "idle") = 1
              /\ Cardinality(WritesAt(idx)) = N + 1
              /\ ltrace[Len(ltrace)] = "idle"
              /\ Len(ltrace) = 3 * N + 2
    /\ (pc \in {"poll_write", "poll_read", "poll_sleep", "settle"}) =>
          \A i \in WritesAt(idx) : wlog[i].data = <<63>>

\* wait_for_idle has just returned after two non-Idle responses
C7_Witness ==
    /\ pc = "settle"
    /\ Count(ltrace, "busy") = 2
    /\ Cardinality(WritesAt(idx)) = 3

(* ------------------------------------------------------------------ *)
(* C8                                                                  *)
(* ------------------------------------------------------------------ *)

\* the loop is at a callback line, so reads are made by wait_for_idle
AtCallbackLine == Len(kinds) = idx /\ kinds[idx] = "callback"

\* C8: in wait_for_idle a response is taken as Idle exactly when it contains
\* "<Idle" (case-sensitive); any other response read from the transport makes
\* the poller retry, and none makes it raise.
C8_AnyResponseIsIdleOrRetry ==
    /\ (pc = "settle") => Contains(response, IdleToken)
    /\ (pc = "poll_sleep") => ~Contains(response, IdleToken)
    /\ ~(AtCallbackLine /\ fault.site = "decode")

(* ------------------------------------------------------------------ *)
(* C9                                                                  *)
(* ------------------------------------------------------------------ *)

\* the registry entry a register_callback call asks for
EntryOf(op) ==
    [callback |-> op.callback, args |-> op.bound.args, kwargs |-> op.bound.kwargs]

\* every key is a lower-cased keyword, no two keys fold to the same keyword,
\* and the registration just made is the entry under its lower-cased keyword
RegistryKeyed ==
    /\ \A k \in DOMAIN callbacks : k = Lower(k)
    /\ \A k1, k2 \in DOMAIN callbacks : (Lower(k1) = Lower(k2)) => (k1 = k2)
    /\ (lastOp.op = "register_callback") =>
          /\ Lower(lastOp.command) \in DOMAIN callbacks
          /\ callbacks[Lower(lastOp.command)] = EntryOf(lastOp)

\* a step changes the registry only at the lower-cased keyword of a
\* registration made by that step, and never removes an entry
RegistryStep ==
    /\ \A k \in DOMAIN callbacks :
         /\ k \in DOMAIN callbacks'
         /\ (callbacks'[k] # callbacks[k]) =>
               (lastOp'.op = "register_callback" /\ k = Lower(lastOp'.command))
    /\ \A k \in DOMAIN callbacks' \ DOMAIN callbacks :
         lastOp'.op = "register_callback" /\ k = Lower(lastOp'.command)

\* a line taken by the loop goes to the callback branch exactly when it is
\* non-blank and its lower-cased first token is a key of the registry
LookupStep ==
    (Len(kinds') = Len(kinds) + 1) =>
        ((kinds'[Len(kinds')] = "callback") <=> Triggers(lines[idx]))

\* C9: the registry is keyed by lower-cased keyword with at most one entry per
\* case-folded keyword; a registration always succeeds and leaves its
\* (handler, args, kwargs) as the entry of its keyword, replacing any earlier
\* one, and touches no other entry, so each entry is the most recent
\* registration for its keyword; dispatch folds a line's first token the same
\* way before looking it up.
C9_RegistryLastWriteWins ==
    /\ []RegistryKeyed
    /\ [][RegistryStep /\ LookupStep]_vars

\* 'Read' was registered last, with handler h1, beside an entry for 'G0': the
\* registry holds it under "read"
C9_Witness ==
    /\ lastOp.op = "register_callback"
    /\ lastOp.command = <<"R", "e", "a", "d">>
    /\ DOMAIN callbacks = { <<"r", "e", "a", "d">>, <<"g", "0">> }
    /\ callbacks[<<"r", "e", "a", "d">>].callback = "h1"

(* ------------------------------------------------------------------ *)
(* C10                                                                 *)
(* ------------------------------------------------------------------ *)

\* transmitted commands not yet acknowledged
Outstanding == stats.sent - stats.acked

\* C10: at most one transmitted command awaits its acknowledgment, and only
\* while the loop is in that command's acknowledgment wait (or unwinding from a
\* fault in it); the loop never takes a line while an earlier one is
\* unresolved: every line before the current one was blank, or was transmitted
\* once and acknowledged by a response containing "ok" in some letter case, or
\* had its handler invoked and returned.
C10_StopAndWait ==
    /\ Outstanding \in {0, 1}
    /\ (Outstanding = 1) =>
          \/ pc \in {"ack_first", "ack_loop"}
          \/ Unwinding /\ fault.site \in {"read", "decode"}
    /\ Len(kinds) \in {idx - 1, idx}
    /\ (pc = "ack_sleep") => Contains(Lower(response), <<"o", "k">>)
    /\ \A j \in 1..Len(kinds) :
         (j < idx) =>
            /\ (kinds[j] = "command") => (Cardinality(WritesAt(j)) = 1)
            /\ (kinds[j] = "callback") => (Cardinality(CallsAt(j)) = 1)
            /\ (kinds[j] = "blank") => (WritesAt(j) = {} /\ CallsAt(j) = {})
    /\ KindCount(idx - 1, "command") <= stats.acked
    /\ (pc = "line" /\ idx > 1) =>
          /\ (kinds[idx - 1] = "command") =>
                /\ Len(ltrace) >= 3
                /\ ltrace[Len(ltrace)] = "pause"
                /\ ltrace[Len(ltrace) - 1] = "ack"
                /\ Contains(Lower(response), <<"o", "k">>)
          /\ (kinds[idx - 1] = "callback") => (ltrace[Len(ltrace)] = "return")

\* the second line, a command, is in its acknowledgment wait after two
\* responses without "ok", the first line having gone to a handler
C10_Witness ==
    /\ pc = "ack_loop"
    /\ idx = 2
    /\ kinds = <<"callback", "command">>
    /\ Outstanding = 1
    /\ Count(ltrace, "nak") = 2

(* ------------------------------------------------------------------ *)
(* C11                                                                 *)
(* ------------------------------------------------------------------ *)

\* a send_gcode call has been made and its input looked at
SourceSeen == source.via # "none"

\* C11: when the input of send_gcode is None or is neither a Plate nor a
\* string, the call raises ValueError from the parse, before anything else:
\* the transport is never opened, flushed, written, read for a handler or
\* closed, and the caller gets the ValueError.
C11_InvalidSourceRejected ==
    (SourceSeen /\ source.input.kind \notin {"Plate", "str"}) =>
        /\ pc \in {"except", "finally", "returned"}
        /\ fault = [type |-> "ValueError", site |-> "parse"]
        /\ port = "none"
        /\ stats = NoStats
        /\ wlog = <<>>
        /\ calls = <<>>
        /\ (pc = "returned" =>
               result = [status |-> "raised",
                         exc |-> [type |-> "ValueError", site |-> "parse"]])

\* a call given an object of another type has ended
C11_Witness ==
    /\ pc = "returned"
    /\ source.input.kind = "int"
    /\ result.status = "raised"
    /\ stats.opens = 0

(* ------------------------------------------------------------------ *)
(* C12                                                                 *)
(* ------------------------------------------------------------------ *)

\* the order of resolution and the branch taken for each kind of input
ResolutionOrder ==
    /\ source.input.kind = "Plate" =>
           /\ source.via = "compile"
           /\ source.compiles = 1
           /\ gcode_str = generate_gcode(source.input.plate)
    /\ (source.input.kind = "str" /\ source.input.text \in DOMAIN Files) =>
           /\ source.via = "file"
           /\ source.compiles = 0
    /\ (source.input.kind = "str" /\ source.input.text \notin DOMAIN Files) =>
           /\ source.via = "literal"
           /\ source.compiles = 0
           /\ gcode_str = source.input.text
    /\ pc \in {"line", "poll_write", "poll_read", "poll_sleep", "settle",
               "invoke", "handler", "write", "ack_first", "ack_loop",
               "ack_sleep"} => lines = SplitSep(gcode_str, "\n")

\* C12 as claimed: a Plate has generate_gcode called exactly once and that
\* output is dispatched; otherwise a string naming an existing file is
\* replaced by the file's contents, character for character; otherwise the
\* string itself is the script.
C12_FileReadVerbatim ==
    (SourceSeen /\ source.input.kind \in {"Plate", "str"}) =>
        /\ ResolutionOrder
        /\ source.via = "file" => gcode_str = Decode(Files[source.input.text])

\* C12 amended: the same order, the file's contents being what a text-mode
\* read returns: decoded, with every "\r\n" and every "\r" turned into "\n".
C12_ResolutionOrder ==
    (SourceSeen /\ source.input.kind \in {"Plate", "str"}) =>
        /\ ResolutionOrder
        /\ source.via = "file" =>
               gcode_str = UniversalNewlines(Decode(Files[source.input.text]))

\* a call given the path of a file sent both of its lines and returned
C12_Witness ==
    /\ pc = "returned"
    /\ source.via = "file"
    /\ result.status = "returned"
    /\ stats.sent = 2
    /\ stats.acked = 2

\* a call given a Plate sent the compiled script and returned
C12_WitnessPlate ==
    /\ pc = "returned"
    /\ source.via = "compile"
    /\ result.status = "returned"
    /\ Len(lines) = 6

(* ------------------------------------------------------------------ *)
(* Vocabulary of the properties of Plate                               *)
(* ------------------------------------------------------------------ *)

\* generate_gcode was the last call on the plate, and gcode is what it returned
Generated == plateOp.op = "generate_gcode"

\* the lines of the returned script
Script == SplitSep(gcode, "\n")

StartsWith(s, pre) == Len(s) >= Len(pre) /\ SubSeq(s, 1, Len(pre)) = pre

EndsWith(s, suf) ==
    Len(s) >= Len(suf) /\ SubSeq(s, Len(s) - Len(suf) + 1, Len(s)) = suf

\* the wells of the plate in row-major order: row 0 first, columns left to right
RowMajor ==
    [k \in 1..(plate.rows * plate.cols) |->
        <<(k - 1) \div plate.cols, (k - 1) % plate.cols>>]

\* the occupied wells, in row-major order
OccupiedWells ==
    LET occupied(w) == plate.data[w] # None
    IN  SelectSeq(RowMajor, occupied)

\* the kinds of line of a compiled script
IsUnitsLine(l) == StartsWith(l, <<"G", "2", "1">>)

IsAbsoluteLine(l) == StartsWith(l, <<"G", "9", "0">>)

IsSafeLine(l) == StartsWith(l, <<"G", "0", " ", "Z">>) /\ ~Contains(l, <<";">>) /\ ~Contains(l, <<"X">>)

IsAboveLine(l) ==
    StartsWith(l, <<"G", "0", " ", "X">>) /\ Contains(l, <<" ", "Y">>) /\ Contains(l, <<" ", "Z">>)
    /\ Contains(l, <<";", " ", "M", "o", "v", "e", " ", "t", "o", " ", "a", "b", "o", "v", "e", " ", "w", "e", "l", "l">>)

IsLowerLine(l) == StartsWith(l, <<"G", "0", " ", "Z">>) /\ Contains(l, <<";", " ", "L", "o", "w", "e", "r", " ", "t", "o", " ", "r", "e", "a", "d", "i", "n", "g", " ", "h", "e", "i", "g", "h", "t">>)

IsMarkerLine(l) == StartsWith(l, <<"R", "e", "a", "d", " ", "w", "e", "l", "l", " ", "a", "t", " ">>)

IsRaiseLine(l) == StartsWith(l, <<"G", "0", " ", "Z">>) /\ Contains(l, <<";", " ", "R", "a", "i", "s", "e", " ", "b", "a", "c", "k", " ", "t", "o", " ", "s", "a", "f", "e", " ", "h", "e", "i", "g", "h", "t">>)

IsOriginLine(l) == StartsWith(l, <<"G", "0", " ", "X", "0", " ", "Y", "0">>)

IsZeroHeightLine(l) == StartsWith(l, <<"G", "0", " ", "Z", "0">>) /\ Contains(l, <<";", " ", "R", "e", "t", "u", "r", "n">>)

IsEndLine(l) == StartsWith(l, <<"M", "3", "0">>)

\* a line that belongs to the block of a well
IsWellLine(l) == IsAboveLine(l) \/ IsLowerLine(l) \/ IsMarkerLine(l) \/ IsRaiseLine(l)

\* the script opens with the three setup lines and closes with the trailer
SetupAndTrailer ==
    /\ Len(Script) >= 6
    /\ IsUnitsLine(Script[1])
    /\ IsAbsoluteLine(Script[2])
    /\ IsSafeLine(Script[3])
    /\ IsOriginLine(Script[Len(Script) - 2])
    /\ IsZeroHeightLine(Script[Len(Script) - 1])
    /\ IsEndLine(Script[Len(Script)])

(* ------------------------------------------------------------------ *)
(* C13                                                                 *)
(* ------------------------------------------------------------------ *)

\* C13: for a plate whose wells are all None, generate_gcode returns exactly
\* the three setup lines (units, absolute positioning, move to safe height)
\* followed by the three trailer lines (return to origin, zero-height move,
\* program end); no line is a "Read well" marker or a move for a well.
C13_EmptyPlateScript ==
    (Generated /\ OccupiedWells = <<>>) =>
        /\ Len(Script) = 6
        /\ SetupAndTrailer
        /\ \A i \in 1..Len(Script) :
               ~IsWellLine(Script[i]) /\ ~Contains(Script[i], <<"R", "e", "a", "d", " ", "w", "e", "l", "l">>)

\* an out-of-range set_custom left the plate empty and the script was generated
C13_Witness ==
    /\ Generated
    /\ OccupiedWells = <<>>
    /\ nassign > 0
    /\ plate.rows = 2

(* ------------------------------------------------------------------ *)
(* C14                                                                 *)
(* ------------------------------------------------------------------ *)

\* the line "...; Move to above well at (row, col)" of well w
NamesWell(l, w) ==
    EndsWith(l, <<" ", "a", "t", " ", "(">> \o IntStr(w[1]) \o <<",", " ">> \o IntStr(w[2]) \o <<")">>)

\* the first of the four lines of the k-th occupied well
BlockStart(k) == 3 + 4 * (k - 1) + 1

\* C14: between the setup lines and the trailer, generate_gcode emits one block
\* of four adjacent lines per occupied well: the move above the well, the move
\* to read height, the action marker, the move back to safe height.  The
\* blocks follow the wells in row-major order, a well that is None emits
\* nothing, and there are as many action markers as occupied wells.
C14_OneBlockPerOccupiedWell ==
    Generated =>
        /\ SetupAndTrailer
        /\ Len(Script) = 6 + 4 * Len(OccupiedWells)
        /\ \A k \in 1..Len(OccupiedWells) :
               /\ IsAboveLine(Script[BlockStart(k)])
               /\ NamesWell(Script[BlockStart(k)], OccupiedWells[k])
               /\ IsLowerLine(Script[BlockStart(k) + 1])
               /\ IsMarkerLine(Script[BlockStart(k) + 2])
               /\ IsRaiseLine(Script[BlockStart(k) + 3])
        /\ Cardinality({ i \in 1..Len(Script) : IsMarkerLine(Script[i]) })
               = Len(OccupiedWells)

\* a script for a plate with wells occupied in both rows and a None between
C14_Witness ==
    /\ Generated
    /\ plate.rows = 2
    /\ Len(OccupiedWells) >= 3
    /\ plate.data[<<0, 0>>] # None
    /\ plate.data[<<0, 1>>] = None
    /\ plate.data[<<1, 0>>] # None

(* ------------------------------------------------------------------ *)
(* C15                                                                 *)
(* ------------------------------------------------------------------ *)

\* the text after the axis letter in the first word of l that starts with that
\* letter, without the ";" that may close the command
AxisField(l, axis) ==
    LET words == SplitWS(l)
        i == CHOOSE i \in 1..Len(words) :
                 /\ words[i][1] = axis
                 /\ \A j \in 1..(i - 1) : words[j][1] # axis
        t == Tail(words[i])
    IN  IF t # <<>> /\ t[Len(t)] = ";" THEN SubSeq(t, 1, Len(t) - 1) ELSE t

\* a number written with digits, a point and exactly two decimals
IsFixed2(s) ==
    LET u == IF s # <<>> /\ s[1] = "-" THEN Tail(s) ELSE s
    IN  /\ Len(u) >= 4
        /\ u[Len(u) - 2] = "."
        /\ \A i \in 1..Len(u) : i # Len(u) - 2 => IsDigit(u[i])

\* the value of such a number, in hundredths
Fixed2Value(s) ==
    LET u == IF s[1] = "-" THEN Tail(s) ELSE s
        v == 100 * DigitsValue(SubSeq(u, 1, Len(u) - 3))
             + DigitsValue(SubSeq(u, Len(u) - 1, Len(u)))
    IN  IF s[1] = "-" THEN -v ELSE v

\* the line carries the value v (hundredths) on the axis
Carries(l, axis, v) ==
    IsFixed2(AxisField(l, axis)) /\ Fixed2Value(AxisField(l, axis)) = v

\* C15: for every occupied well (row, col), the line that moves above the well
\* carries X = col * x_spacing and Y = row * y_spacing + offset_y.
C15_WellCoordinates ==
    Generated =>
        \A k \in 1..Len(OccupiedWells) :
            LET row == OccupiedWells[k][1]
                col == OccupiedWells[k][2]
                l == Script[BlockStart(k)]
            IN  /\ Carries(l, "X", col * plate.x_spacing)
                /\ Carries(l, "Y", row * plate.y_spacing + plate.offset_y)

\* a script for the plate with x_spacing 4.5, y_spacing 18 and offset_y 0.25
\* whose well B3 is occupied
C15_Witness ==
    /\ Generated
    /\ plate.x_spacing = 450
    /\ plate.data[<<1, 2>>] # None
    /\ \E i \in 1..Len(Script) :
           IsAboveLine(Script[i]) /\ Carries(Script[i], "X", 900)
           /\ Carries(Script[i], "Y", 1825)

(* ------------------------------------------------------------------ *)
(* C16                                                                 *)
(* ------------------------------------------------------------------ *)

\* C16: the Z of the plate is written as given: the move to read height of
\* every occupied well carries Z = z_read, and every move at safe height (the
\* one of the setup, the move above a well, the move back up) carries
\* Z = z_safe; no sign is inverted.
C16_ZSignPreserved ==
    Generated =>
        \A i \in 1..Len(Script) :
            /\ IsLowerLine(Script[i]) => Carries(Script[i], "Z", plate.z_read)
            /\ (IsSafeLine(Script[i]) \/ IsAboveLine(Script[i])
                    \/ IsRaiseLine(Script[i]))
                   => Carries(Script[i], "Z", plate.z_safe)

(* ------------------------------------------------------------------ *)
(* C17                                                                 *)
(* ------------------------------------------------------------------ *)

\* C17: the action marker of the occupied well (row, col) is "Read well at "
\* followed by one character, the one at code point 'A' + row, and the decimal
\* number col + 1; a row past 25 still gets one character, never two letters.
C17_MarkerNamesWell ==
    Generated =>
        \A k \in 1..Len(OccupiedWells) :
            LET row == OccupiedWells[k][1]
                col == OccupiedWells[k][2]
                l == Script[BlockStart(k) + 2]
            IN  /\ StartsWith(l, <<"R", "e", "a", "d", " ", "w", "e", "l", "l", " ", "a", "t", " ">>)
                /\ Len(l) >= 15
                /\ Ord[l[14]] = Ord["A"] + row
                /\ IsInt(SubSeq(l, 15, Len(l)))
                /\ \A i \in 15..Len(l) : IsDigit(l[i])
                /\ IntOf(SubSeq(l, 15, Len(l))) = col + 1

\* a script for the plate of 27 rows whose well in row 26 is occupied
C17_Witness ==
    /\ Generated
    /\ plate.rows = 27
    /\ plate.data[<<26, 0>>] # None
    /\ \E i \in 1..Len(Script) : Script[i] = <<"R", "e", "a", "d", " ", "w", "e", "l", "l", " ", "a", "t", " ", "[", "1">>

(* ------------------------------------------------------------------ *)
(* C18                                                                 *)
(* ------------------------------------------------------------------ *)

\* the row index and the column index a position names: the letter counted
\* from 'A', the number counted from 1
PosRow(pos) == Ord[pos[1]] - Ord["A"]

PosCol(pos) == IntOf(Tail(pos)) - 1

\* the position names a well of the plate
InGrid(pos) ==
    /\ 0 <= PosRow(pos) /\ PosRow(pos) < plate.rows
    /\ 0 <= PosCol(pos) /\ PosCol(pos) < plate.cols

\* C18: set_custom at a position whose row index or column index is outside
\* 0 <= row < rows, 0 <= col < cols (a column number 0 and a row letter before
\* 'A' included) does nothing: it raises no error and every well is as before.
C18_OutOfRangeCustomIsNoOp ==
    (plateOp.op = "set_custom" /\ ~InGrid(plateOp.pos)) =>
        /\ plateOp.raised = ""
        /\ plate.data = plateOp.before

(* ------------------------------------------------------------------ *)
(* C19                                                                 *)
(* ------------------------------------------------------------------ *)

\* the row-major linear index of well w
LinearIndex(w) == w[1] * plate.cols + w[2]

\* the linear index of the well a position names
StartIndex(pos) == PosRow(pos) * plate.cols + PosCol(pos)

\* the name of well w: its row letter and its column counted from 1
OwnLabel(w) == <<Chr[Ord["A"] + w[1]]>> \o NatStr(w[2] + 1)

\* C19: set_serial_dilutions with a start well in the grid and n dilutions
\* assigns exactly the wells whose row-major linear index is start + i for
\* 0 <= i < n (going on into the following rows), each with the label of its
\* own row letter and column; the steps past the last well are dropped
\* without an error, and every other well is as before.
C19_DilutionsFillRowMajor ==
    (plateOp.op = "set_serial_dilutions" /\ InGrid(plateOp.pos)) =>
        /\ plateOp.raised = ""
        /\ \A w \in DOMAIN plate.data :
               IF /\ StartIndex(plateOp.pos) <= LinearIndex(w)
                  /\ LinearIndex(w) < StartIndex(plateOp.pos) + plateOp.num
               THEN /\ plate.data[w] # None
                    /\ plate.data[w][1] = OwnLabel(w)
                    /\ plate.data[w][2] = "Substance2"
               ELSE plate.data[w] = plateOp.before[w]

\* two dilutions from A3 of the 2 x 3 plate: A3 and, on the next row, B1
C19_Witness ==
    /\ plateOp.op = "set_serial_dilutions"
    /\ plateOp.pos = <<"A", "3">>
    /\ plateOp.num = 2
    /\ plate.rows = 2
    /\ plateOp.before[<<1, 0>>] = None
    /\ plate.data[<<1, 0>>] # None
    /\ plate.data[<<1, 0>>][1] = <<"B", "1">>

\* two dilutions from B3, the last well of the 2 x 3 plate: the second dropped
C19_WitnessDropped ==
    /\ plateOp.op = "set_serial_dilutions"
    /\ plateOp.pos = <<"B", "3">>
    /\ plateOp.num = 2
    /\ plate.rows = 2
    /\ plateOp.raised = ""
    /\ plate.data[<<1, 2>>] # None

(* ------------------------------------------------------------------ *)
(* C20                                                                 *)
(* ------------------------------------------------------------------ *)

\* C20: set_serial_dilutions whose start position is outside the grid (a start
\* row not in 0..rows-1 or a start column not in 0..cols-1, such as column
\* cols+1 of row A) changes no well.
C20_OutOfGridStartChangesNothing ==
    (plateOp.op = "set_serial_dilutions" /\ ~InGrid(plateOp.pos)) =>
        plate.data = plateOp.before

(* ------------------------------------------------------------------ *)
(* C21                                                                 *)
(* ------------------------------------------------------------------ *)

\* the wells of the plate that come before (row, col) when the wells are read
\* row by row, each row from its first column
WellsBefore(row, col) ==
    { w \in Wells(plate.rows, plate.cols) :
        w[1] < row \/ (w[1] = row /\ w[2] < col) }

\* (row, col) is a well of the plate
OnGrid(row, col) ==
    /\ 0 <= row /\ row < plate.rows
    /\ 0 <= col /\ col < plate.cols

\* C21: on the grid pos_to_index and index_to_pos undo each other, and the
\* index of a well is its rank in row-major order: for a well (row, col),
\* index_to_pos(pos_to_index(row, col)) = (row, col) and pos_to_index(row, col)
\* is the number of wells before it; for 0 <= i < rows * cols,
\* index_to_pos(i) is a well and pos_to_index of it is i.
C21_IndexAndPositionInverse ==
    /\ (lookup.op = "pos_to_index" /\ OnGrid(lookup.row, lookup.col)) =>
          /\ index_to_pos(plate, lookup.index) = <<lookup.row, lookup.col>>
          /\ lookup.index = Cardinality(WellsBefore(lookup.row, lookup.col))
    /\ (lookup.op = "index_to_pos" /\ 0 <= lookup.index
            /\ lookup.index < plate.rows * plate.cols) =>
          /\ OnGrid(lookup.row, lookup.col)
          /\ pos_to_index(plate, lookup.row, lookup.col) = lookup.index
          /\ lookup.index = Cardinality(WellsBefore(lookup.row, lookup.col))

\* pos_to_index(1, 0) was called on a plate with three columns
C21_Witness ==
    /\ lookup.op = "pos_to_index"
    /\ plate.rows = 2 /\ plate.cols = 3
    /\ lookup.row = 1 /\ lookup.col = 0
    /\ lookup.index = 3

\* index_to_pos(5) was called on the same kind of plate and gave its last well
C21_WitnessIndex ==
    /\ lookup.op = "index_to_pos"
    /\ plate.rows = 2 /\ plate.cols = 3
    /\ lookup.index = 5
    /\ lookup.row = 1 /\ lookup.col = 2

(* ------------------------------------------------------------------ *)
(* C22                                                                 *)
(* ------------------------------------------------------------------ *)

\* the loop is about to take a line that is empty or whitespace-only
AtBlankLine ==
    /\ pc = "line"
    /\ idx <= Len(lines)
    /\ ~NonBlank(lines[idx])

\* the step made from such a line: nothing is written or read, no registry
\* entry is fetched, no handler is invoked, nothing is raised or printed, and
\* the loop is at the next line
BlankLineStep ==
    AtBlankLine =>
        /\ wlog' = wlog
        /\ response' = response
        /\ cb' = cb
        /\ calls' = calls
        /\ stats' = stats
        /\ exc' = exc
        /\ port' = port
        /\ shown' = <<>>
        /\ pc' = "line"
        /\ idx' = idx + 1
        /\ lines' = lines

\* C22: a script line that is empty or whitespace-only causes no transport
\* write, no transport read, no registry lookup and no handler invocation;
\* dispatch goes directly to the next line.
C22_BlankLineSkipped == [][BlankLineStep]_vars

\* a finished call whose first line was whitespace-only and whose second line
\* was transmitted: the only write is the second line's
C22_Witness ==
    /\ pc = "returned"
    /\ result.status = "returned"
    /\ Len(lines) = 2
    /\ lines[1] = <<" ", "\t">>
    /\ kinds = <<"blank", "command">>
    /\ Len(wlog) = 1
    /\ wlog[1].at = 2

(* ------------------------------------------------------------------ *)
(* C23                                                                 *)
(* ------------------------------------------------------------------ *)

\* the response has an 'o' followed by a 'k', either letter in either case
HasOk(resp) ==
    \E i \in 1..(Len(resp) - 1) :
        resp[i] \in {"o", "O"} /\ resp[i + 1] \in {"k", "K"}

\* a step of the acknowledgment wait in which a response was read and decoded
AckRead == pc \in {"ack_first", "ack_loop"} /\ exc' = NoExc

\* such a step ends the wait when the response has 'ok' in any letter case and
\* goes on reading when it has not; the loop stays at the transmitted line
AckReadStep ==
    AckRead =>
        /\ idx' = idx
        /\ wlog' = wlog
        /\ HasOk(response') => pc' = "ack_sleep"
        /\ ~HasOk(response') => pc' = "ack_loop"

\* the loop leaves a transmitted line only after its acknowledgment
AckLeaveStep ==
    (pc \in {"write", "ack_first", "ack_loop", "ack_sleep"} /\ idx' # idx) =>
        (pc = "ack_sleep" /\ HasOk(response))

AckWaitStep == AckReadStep /\ AckLeaveStep

\* C23: after a command is transmitted the responses are read until one whose
\* lower-cased form contains 'ok'; that response, in any letter case, ends the
\* wait, and a response without 'ok' (an empty one included) neither ends the
\* wait nor moves the loop to the next line.
C23_AckWaitEndsOnOk == [][AckWaitStep]_vars

\* a command acknowledged by '[Ok]' after two responses without 'ok' were
\* read for it
C23_Witness ==
    /\ pc = "ack_sleep"
    /\ response = <<"[", "O", "k", "]">>
    /\ ltrace = <<"send", "nak", "nak", "ack">>
    /\ stats.acked = 1

\* an empty response was read for a transmitted command and the wait goes on
C23_WitnessEmpty ==
    /\ pc = "ack_loop"
    /\ response = <<>>
    /\ ltrace = <<"send", "nak">>
    /\ port = "open"

(* ------------------------------------------------------------------ *)
(* C24                                                                 *)
(* ------------------------------------------------------------------ *)

\* the step printed the response as an informational trace
Traced(resp) ==
    \E i \in 1..Len(shown') : shown'[i] = Msg("CNC Response: ", resp)

\* a response read in the acknowledgment wait that is not empty and has no
\* 'ok' is printed, and the wait goes on
NonOkTracedStep ==
    (AckRead /\ response' # <<>> /\ ~HasOk(response')) =>
        (Traced(response') /\ pc' = "ack_loop")

\* C24: during an acknowledgment wait every response read before the
\* acknowledgment that is non-empty and does not contain 'ok', the first
\* response read after the transmission included, is surfaced as an
\* informational trace, and the wait continues.
C24_NonOkResponsesTraced == [][NonOkTracedStep]_vars

(* ------------------------------------------------------------------ *)
(* C25                                                                 *)
(* ------------------------------------------------------------------ *)

\* the flushInput() calls of this dispatch: the ones that returned and the
\* one that raised
FlushCalls == stats.flushes + (IF fault.site = "flush" THEN 1 ELSE 0)

\* the for loop over the script lines is running
InLoop ==
    pc \in {"line", "poll_write", "poll_read", "poll_sleep", "settle", "handler",
            "write", "ack_first", "ack_loop", "ack_sleep"}

\* C25: in every dispatch that opens the transport the input buffer is flushed
\* exactly once, after the open and before the first write or read of a
\* script line or status query.
C25_FlushedOnceAfterOpen ==
    /\ FlushCalls <= 1
    /\ FlushCalls <= stats.opens
    /\ (pc = "flush") => (stats.opens = 1 /\ FlushCalls = 0 /\ wlog = <<>>)
    /\ (InLoop \/ wlog # <<>> \/ calls # <<>> \/ ltrace # <<>>) => stats.flushes = 1
    /\ (pc \in {"finally", "returned"} /\ stats.opens = 1) => FlushCalls = 1

\* a finished call that opened the transport, flushed once and then wrote a
\* status query and a script line
C25_Witness ==
    /\ pc = "returned"
    /\ stats.opens = 1
    /\ stats.flushes = 1
    /\ Len(wlog) >= 2
    /\ wlog[1].data = StatusQuery
    /\ stats.sent = 1

(* ------------------------------------------------------------------ *)
(* C26                                                                 *)
(* ------------------------------------------------------------------ *)

\* serial.Serial(...) raised in this dispatch
OpenFault == fault = [type |-> "SerialException", site |-> "open"]

\* C26: if opening the transport fails, the dispatch transmits no line,
\* invokes no handler and attempts no flush, the exception that reaches the
\* caller is the one the open raised, and the cleanup does not try to close a
\* transport that was never opened.
C26_OpenFaultNothingDone ==
    OpenFault =>
        /\ pc \in {"except", "finally", "returned"}
        /\ wlog = <<>>
        /\ calls = <<>>
        /\ kinds = <<>>
        /\ stats = NoStats
        /\ port = "none"
        /\ (pc = "finally") => (exc = fault)
        /\ (pc = "returned") =>
              /\ result = [status |-> "raised", exc |-> fault]
              /\ shown = <<>>

\* the call ended on the exception the open raised, nothing opened or closed
C26_Witness ==
    /\ OpenFault
    /\ pc = "returned"
    /\ result.status = "raised"
    /\ result.exc.site = "open"
    /\ stats.opens = 0
    /\ stats.closes = 0
    /\ gcode_str # <<>>

(* ------------------------------------------------------------------ *)
(* C27                                                                 *)
(* ------------------------------------------------------------------ *)

\* the dispatch is inside wait_for_idle, before an Idle response
InPoll == pc \in {"poll_write", "poll_read", "poll_sleep"}

\* the dispatch is waiting for the acknowledgment of a transmitted command
InAckWait == pc \in {"ack_first", "ack_loop"}

\* the exceptions a write, a readline or a decode of the wait can raise
RaisedByTransport ==
    { [type |-> "SerialException", site |-> "write"],
      [type |-> "SerialException", site |-> "read"],
      [type |-> "UnicodeDecodeError", site |-> "decode"] }

\* a step made inside a wait: the wait goes on at the same line with the
\* transport open and nothing raised, or it ends on the response it waits
\* for, or an exception raised by the transport operation itself leaves it;
\* the wait has no other way out
WaitStep ==
    (InPoll \/ InAckWait) =>
        \/ /\ (InPoll /\ InPoll') \/ (InAckWait /\ InAckWait')
           /\ idx' = idx
           /\ kinds' = kinds
           /\ calls' = calls
           /\ exc' = NoExc
           /\ port' = "open"
           /\ stats'.closes = 0
        \/ InPoll /\ pc' = "settle" /\ Contains(response', IdleToken)
        \/ InAckWait /\ pc' = "ack_sleep" /\ HasOk(response')
        \/ pc' = "except" /\ exc' \in RaisedByTransport

\* C27: there is no timeout and no stall error: as long as no status line
\* with '<Idle' (no line with 'ok' after a transmitted command) is read, the
\* dispatch stays in the wait, raises nothing of its own, takes no later line
\* and does not close the transport.
C27_NoTimeoutInWaits == [][WaitStep]_vars

\* two status responses without '<Idle' have been read for the first of two
\* lines: the poller sleeps before its third query, the transport still open
C27_Witness ==
    /\ pc = "poll_sleep"
    /\ Count(ltrace, "busy") = 2
    /\ Len(lines) = 2
    /\ idx = 1
    /\ port = "open"
    /\ stats.closes = 0
    /\ exc = NoExc

(* ------------------------------------------------------------------ *)
(* C28                                                                 *)
(* ------------------------------------------------------------------ *)

\* a step that is not a register_callback call: the start of a send_gcode
\* call or a step inside one
DispatchStep == lastOp'.op = "send_gcode"

\* such a step leaves the registry as it is
RegistryKept == DispatchStep => callbacks' = callbacks

\* the entry a dispatch uses for a line is the one the registry holds
EntryInUse ==
    (pc \in {"poll_write", "poll_read", "poll_sleep", "settle", "handler"}) =>
        /\ command \in DOMAIN callbacks
        /\ cb = callbacks[command]

\* C28: the registry is changed only by register_callback: a send_gcode call,
\* whether it completes or faults, leaves the registry exactly as it found
\* it, so the entries registered before a dispatch are the ones in force,
\* unchanged, in it and in every later dispatch of the same controller.
C28_RegistryOnlyChangedByRegistration ==
    /\ []EntryInUse
    /\ [][RegistryKept]_vars

\* a dispatch that invoked a registered handler and ended on an exception,
\* the two entries registered before it still in the registry
C28_Witness ==
    /\ pc = "returned"
    /\ lastOp.op = "send_gcode"
    /\ result.status = "raised"
    /\ Len(calls) = 1
    /\ DOMAIN callbacks = { <<"r", "e", "a", "d">>, <<"g", "0">> }
    /\ callbacks[<<"r", "e", "a", "d">>].callback = calls[1].callback

(* ------------------------------------------------------------------ *)
(* C29                                                                 *)
(* ------------------------------------------------------------------ *)

\* the words of the command of a script line: what stands before the ";"
CommandWords(l) == SplitWS(SplitSep(l, ";")[1])

\* the numeric fields of a script line: in a motion command (G0), the text
\* after the axis letter of each X, Y or Z word; a marker line has none
NumericFields(l) ==
    IF CommandWords(l) = <<>> \/ CommandWords(l)[1] # <<"G", "0">>
    THEN {}
    ELSE { Tail(CommandWords(l)[i]) :
             i \in { j \in 1..Len(CommandWords(l)) :
                       CommandWords(l)[j][1] \in {"X", "Y", "Z"} } }

\* C29: every numeric field of every line of the compiled script, in the
\* setup, in the per-well moves and in the return-to-origin and zero-height
\* trailer alike, is written with exactly two decimals.
C29_AllFieldsTwoDecimals ==
    Generated =>
        \A k \in 1..Len(Script) : \A f \in NumericFields(Script[k]) : IsFixed2(f)

(* ------------------------------------------------------------------ *)
(* C30                                                                 *)
(* ------------------------------------------------------------------ *)

\* a send_gcode call has ended with nothing raised in it
EndedClean ==
    /\ pc = "returned"
    /\ lastOp.op = "send_gcode"
    /\ fault = NoExc

\* every line of the script was taken, and each was resolved: a blank line
\* skipped, a command transmitted once and acknowledged, a callback line handed
\* to its handler once
EveryLineResolved ==
    /\ Len(kinds) = Len(lines)
    /\ idx = Len(lines) + 1
    /\ \A j \in 1..Len(lines) :
         /\ (kinds[j] = "blank") <=> ~NonBlank(lines[j])
         /\ (kinds[j] = "command") =>
               \E i \in WritesAt(j) : wlog[i].data = Encode(lines[j] \o <<"\n">>)
         /\ (kinds[j] = "callback") => Cardinality(CallsAt(j)) = 1
    /\ stats.acked = stats.sent
    /\ stats.sent = KindCount(Len(lines), "command")

\* C30: when the transport does not fault, every handler returns and the
\* device answers every command with 'ok' and every series of status queries
\* with '<Idle' after finitely many other responses, the dispatch of a script
\* terminates, with every line resolved and the transport closed.
C30_DispatchTerminates ==
    /\ (pc = "open") ~> (pc = "returned")
    /\ [](EndedClean =>
             /\ result = [status |-> "returned", exc |-> NoExc]
             /\ EveryLineResolved
             /\ port = "closed"
             /\ stats.closes = 1)

\* a script of a callback line and a command line was dispatched to the end,
\* the device having reported Idle at the second status query
C30_Witness ==
    /\ EndedClean
    /\ kinds = <<"callback", "command">>
    /\ Len(calls) = 1
    /\ stats.sent = 1
    /\ stats.acked = 1
    /\ Len(wlog) = 3
    /\ port = "closed"

(* ------------------------------------------------------------------ *)
(* C31                                                                 *)
(* ------------------------------------------------------------------ *)

\* the plate has been given to send_gcode and its script is being dispatched
PlateDispatched == lastOp.op = "send_gcode" /\ source.via = "compile"

\* the action marker of well w
MarkerOf(w) == <<"R", "e", "a", "d", " ", "w", "e", "l", "l", " ", "a", "t", " ">> \o OwnLabel(w)

\* the place in the script of the marker of the k-th occupied well
MarkerAt(k) == BlockStart(k) + 2

\* the handler invocations so far are those of the first occupied wells in
\* row-major order, one each, with the well's marker line
CallsFollowWells ==
    /\ Len(calls) <= Len(OccupiedWells)
    /\ \A i \in 1..Len(calls) :
         /\ calls[i].callback = ReadRegistration.callback
         /\ calls[i].line = MarkerOf(OccupiedWells[i])
         /\ calls[i].at = MarkerAt(i)
         /\ lines[calls[i].at] = calls[i].line

\* while the handler of a marker is about to run or running, the move to read
\* height just before it was written before any status query of the marker,
\* every command line before the marker is acknowledged, and the response
\* last read reports Idle
HandlerAfterLowerAndIdle ==
    (pc \in {"invoke", "handler"}) =>
        /\ IsMarkerLine(lines[idx])
        /\ IsLowerLine(lines[idx - 1])
        /\ \E i \in WritesAt(idx - 1) :
              /\ wlog[i].data = Encode(lines[idx - 1] \o <<"\n">>)
              /\ \A q \in WritesAt(idx) : i < q
        /\ \A j \in 1..(idx - 1) : ~IsMarkerLine(lines[j]) => kinds[j] = "command"
        /\ stats.sent = KindCount(idx - 1, "command")
        /\ stats.acked = stats.sent
        /\ Contains(response, IdleToken)

\* every write is a status query made at a marker line, or a line that is not
\* a marker, with its newline; no marker is written
OnlyOtherLinesWritten ==
    \A i \in 1..Len(wlog) :
        IF IsMarkerLine(lines[wlog[i].at])
        THEN wlog[i].data = StatusQuery
        ELSE wlog[i].data = Encode(lines[wlog[i].at] \o <<"\n">>)

\* at the end of a dispatch in which nothing was raised, each occupied well
\* has had its invocation and each other line its one write
AllDoneAtEnd ==
    EndedClean =>
        /\ Len(calls) = Len(OccupiedWells)
        /\ Len(lines) = 6 + 4 * Len(OccupiedWells)
        /\ \A j \in 1..Len(lines) :
             IF IsMarkerLine(lines[j])
             THEN Cardinality(CallsAt(j)) = 1
             ELSE Cardinality(WritesAt(j)) = 1 /\ CallsAt(j) = {}

\* C31: when the script compiled from a plate is dispatched with a handler
\* registered only under 'Read', the handler is invoked once per occupied well,
\* in row-major order, with that well's 'Read well at <label>' line, and only
\* after the well's move to read height was transmitted and acknowledged and
\* the device reported Idle; every other line (setup, moves, trailer) is
\* transmitted and no action marker is.
C31_PlateDispatchedEndToEnd ==
    PlateDispatched =>
        /\ CallsFollowWells
        /\ HandlerAfterLowerAndIdle
        /\ OnlyOtherLinesWritten
        /\ AllDoneAtEnd

\* B1 was filled before A3, and the dispatch ended with the handler invoked
\* for A3 and then for B1
C31_Witness ==
    /\ PlateDispatched
    /\ EndedClean
    /\ plateOp.pos = <<"A", "3">>
    /\ Len(calls) = 2
    /\ calls[1].line = <<"R", "e", "a", "d", " ", "w", "e", "l", "l", " ", "a", "t", " ", "A", "3">>
    /\ calls[2].line = <<"R", "e", "a", "d", " ", "w", "e", "l", "l", " ", "a", "t", " ", "B", "1">>
    /\ stats.sent = 12

(* ------------------------------------------------------------------ *)
(* C32                                                                 *)
(* ------------------------------------------------------------------ *)

\* the write is the status query byte
IsQuery(w) == w.data = StatusQuery

\* no line of the script has a registered keyword as its first token
NoLineTriggers == \A j \in 1..Len(lines) : ~Triggers(lines[j])

\* C32: the status query '?' is written only while a line that matches a
\* registered keyword is processed: a script without such a line causes no
\* '?' at all, and every write is either a status query made for a matched
\* line or a line that is not matched, followed by a newline.
C32_QueriesOnlyForCallbackLines ==
    /\ \A i \in 1..Len(wlog) :
         LET line == lines[wlog[i].at]
         IN  IF IsQuery(wlog[i])
             THEN Triggers(line) /\ kinds[wlog[i].at] = "callback"
             ELSE ~Triggers(line) /\ wlog[i].data = Encode(line \o <<"\n">>)
    /\ NoLineTriggers => \A i \in 1..Len(wlog) : ~IsQuery(wlog[i])

\* a finished dispatch of two command lines, 'Read' being registered: two
\* writes, neither of them a status query
C32_Witness ==
    /\ pc = "returned"
    /\ result.status = "returned"
    /\ DOMAIN callbacks = { <<"r", "e", "a", "d">> }
    /\ Len(lines) = 2
    /\ NoLineTriggers
    /\ Len(wlog) = 2
    /\ \A i \in 1..2 : ~IsQuery(wlog[i])

(* ------------------------------------------------------------------ *)
(* C33                                                                 *)
(* ------------------------------------------------------------------ *)

\* a handler of the running dispatch has called register_callback; lastOp is
\* its latest registration
HandlerRegistered == lastOp.op = "register_callback" /\ pc # "idle"

\* the loop is about to take line idx
TakingLine == pc = "line" /\ idx <= Len(lines)

\* the line taken is looked up in the registry as it is at that moment
LiveLookupStep ==
    TakingLine =>
        IF Triggers(lines[idx])
        THEN /\ pc' = "poll_write"
             /\ kinds' = Append(kinds, "callback")
             /\ cb' = callbacks[Lower(FirstToken(lines[idx]))]
        ELSE /\ pc' # "poll_write"
             /\ cb' = cb

\* a line taken after a handler registered its keyword goes to the handler
\* just registered
NewKeywordStep ==
    (/\ TakingLine
     /\ HandlerRegistered
     /\ NonBlank(lines[idx])
     /\ Lower(FirstToken(lines[idx])) = Lower(lastOp.command)) =>
        /\ pc' = "poll_write"
        /\ cb' = EntryOf(lastOp)

\* a registration by the handler leaves what the dispatch has done alone, the
\* handler it is running included
HandlerRegistrationStep ==
    (pc = "handler" /\ lastOp' # lastOp) =>
        /\ callbacks' = DictSet(callbacks, Lower(lastOp'.command), EntryOf(lastOp'))
        /\ pc' = "handler"
        /\ UNCHANGED << lines, idx, cb, wlog, calls, kinds >>

\* what was done for the lines already taken stands, whatever the registry
\* says now: a transmitted line has its write and no handler call, a callback
\* line no write but the status query
PastLinesKept ==
    \A j \in 1..Len(kinds) :
        /\ kinds[j] = "command" =>
               /\ CallsAt(j) = {}
               /\ \A i \in WritesAt(j) : wlog[i].data = Encode(lines[j] \o <<"\n">>)
        /\ kinds[j] = "callback" =>
               /\ \A i \in WritesAt(j) : wlog[i].data = StatusQuery
               /\ Cardinality(CallsAt(j)) <= 1

\* C33: the callback lookup reads the registry as it is when each line is
\* taken.  A registration or replacement made by a handler during a dispatch
\* decides how every later line of that dispatch is treated (a later line with
\* the keyword just registered goes to the new handler and is not transmitted),
\* and the lines already taken keep what was done for them.
C33_LookupAgainstLiveRegistry ==
    /\ [][LiveLookupStep /\ NewKeywordStep /\ HandlerRegistrationStep]_vars
    /\ []PastLinesKept

\* the dispatch of "G0", " Read A1 ", "G0", "read B1" ended with the first G0
\* transmitted and, after the handler of line 2 registered 'G0' and replaced
\* 'READ', the second G0 and the last line handed to the new handler
C33_Witness ==
    /\ pc = "returned"
    /\ fault = NoExc
    /\ HandlerRegistered
    /\ kinds = << "command", "callback", "callback", "callback" >>
    /\ lines[1] = lines[3]
    /\ \E i \in WritesAt(1) : wlog[i].data = Encode(lines[1] \o <<"\n">>)
    /\ \A i \in WritesAt(3) : wlog[i].data = StatusQuery
    /\ Len(calls) = 3
    /\ calls[1].at = 2 /\ calls[1].callback = "h1"
    /\ calls[2].at = 3 /\ calls[2].callback = "h2" /\ calls[2].line = lines[3]
    /\ calls[3].at = 4 /\ calls[3].callback = "h2"
    /\ calls[3].args = BoundExtra.args
====
